---- MODULE Spec2Model ----
(***************************************************************************)
(* Verification model of aws-tagsense: the bulk tagging engine             *)
(* (tagger_core/bulk_operations.py) together with the apply_tags methods   *)
(* of the five resource scanners it drives.                                *)
(*                                                                         *)
(* One call of BulkTaggingEngine.bulk_tag_resources is a sequential        *)
(* process; pc is its position in the method.  The provider (AWS) side is  *)
(* the tag set of every resource of the input list; each remote call may   *)
(* succeed or raise a ClientError.                                         *)
(***************************************************************************)
EXTENDS Integers, Sequences, FiniteSets, TLC

(***************************************************************************)
(* Bounds of the model.                                                    *)
(***************************************************************************)
MaxResources == 3
MaxBatchSize == 2
MaxRegions == 3
MaxWorkers == 2
MaxFound == 1
MaxReportRegions == 6
MaxReportUntagged == 1
MaxClock == 2
MaxTtl == 2
MaxHistory == 2
MaxTurns == 5
MaxListed == 2

(***************************************************************************)
(* Program constants.                                                      *)
(***************************************************************************)
MAX_ATTEMPTS == 3

\* stop_after_attempt(3) of the LLM backends' generate.
LLM_MAX_ATTEMPTS == 3

\* The threads of the event loop's default executor, which
\* run_in_executor(None, ...) uses: min(32, os.cpu_count() + 4), on a host
\* with one processor.
DEFAULT_EXECUTOR_WORKERS == 5

\* "top_offenders = regions_by_untagged[:5]".
TOP_OFFENDERS == 5

ResourceTypes == {"EC2", "Lambda", "RDS", "S3", "EBS"}

PENDING == "pending"
IN_PROGRESS == "in_progress"
COMPLETED == "completed"
FAILED == "failed"
ROLLED_BACK == "rolled_back"

OperationStatus == {PENDING, IN_PROGRESS, COMPLETED, FAILED, ROLLED_BACK}

(***************************************************************************)
(* Tag sets: Dict[str, str], a function from a set of keys to values.      *)
(***************************************************************************)
Keys == {"Environment", "Name"}
Values == {"dev", "prod"}

TagSets == UNION {[D -> Values] : D \in SUBSET Keys}

EmptyTags == [k \in {} |-> "dev"]

\* Tag sets a scan may have recorded on a resource before the run: untagged,
\* or one tag with the value "prod".
OriginalTagSets ==
    {t \in TagSets : Cardinality(DOMAIN t) <= 1 /\ \A k \in DOMAIN t : t[k] = "prod"}

\* Tag sets a caller asks the engine to apply: Environment = dev, with or
\* without a Name.
RequestTagSets ==
    {t \in TagSets : "Environment" \in DOMAIN t /\ \A k \in DOMAIN t : t[k] = "dev"}

\* {**existing, **new}: the keys of both, new overriding existing.
MergeTags(existing, new) ==
    [k \in (DOMAIN existing) \cup (DOMAIN new) |->
        IF k \in DOMAIN new THEN new[k] ELSE existing[k]]

\* Provider side of remove_tags_from_resource: the named keys are deleted.
RemoveKeys(current, keys) ==
    [k \in (DOMAIN current) \ keys |-> current[k]]

(***************************************************************************)
(* The scanners' apply_tags.  One attempt is the method body; its outcome  *)
(* is what it returns or raises and the tag set it leaves at the provider. *)
(* Every remote call of an attempt either succeeds or raises ClientError.  *)
(***************************************************************************)
NoError == "none"
ClientErrorMsg == "ClientError"
AWSErrorMsg == "AWSError: Failed to apply tags"
ValueErrorMsg == "ValueError: Unsupported resource type"
ReturnedFalseMsg == "Tagging returned False"

\* What one call leaves behind: it returned True, returned False or raised.
Returned(t) == [result |-> "True", tags |-> t, error |-> NoError]
ReturnedFalse(t) == [result |-> "False", tags |-> t, error |-> NoError]
Raised(t, msg) == [result |-> "raise", tags |-> t, error |-> msg]

\* EC2Scanner.apply_tags: create_tags adds or overwrites the given keys.
EC2ApplyAttempt(current, new) ==
    { Returned(MergeTags(current, new)), Raised(current, ClientErrorMsg) }

\* LambdaScanner.apply_tags: tag_resource needs the function ARN; any other
\* identifier is rejected by the provider with a ClientError.
LambdaApplyAttempt(id_form, current, new) ==
    IF id_form = "arn"
    THEN { Returned(MergeTags(current, new)), Raised(current, ClientErrorMsg) }
    ELSE { Raised(current, ClientErrorMsg) }

\* EBSScanner.apply_tags: create_tags; a ClientError is wrapped in AWSError.
EBSApplyAttempt(current, new) ==
    { Returned(MergeTags(current, new)), Raised(current, AWSErrorMsg) }

\* S3Scanner._get_bucket_tags: the bucket's tags, or {} on any ClientError.
GetBucketTags(current) == { current, EmptyTags }

\* S3Scanner.apply_tags: read, merge, put_bucket_tagging (replaces the set).
S3ApplyAttempt(current, new) ==
    UNION { { Returned(MergeTags(existing, new)), Raised(current, AWSErrorMsg) } :
            existing \in GetBucketTags(current) }

\* RDSScanner._get_db_instance_tags: the tags, or {} on any ClientError.
GetDbInstanceTags(current) == { current, EmptyTags }

\* RDSScanner.apply_tags: describe, list tags, remove the existing keys,
\* add the merged set; each of the remote calls may raise.
RDSApplyAttempt(current, new) ==
    LET describeFails == { Raised(current, AWSErrorMsg) }
        afterList(existing) ==
            LET merged == MergeTags(existing, new)
                removeFails == IF existing # EmptyTags
                               THEN { Raised(current, AWSErrorMsg) } ELSE {}
                removed == IF existing # EmptyTags
                           THEN RemoveKeys(current, DOMAIN existing)
                           ELSE current
            IN  removeFails \cup
                { Raised(removed, AWSErrorMsg), Returned(MergeTags(removed, merged)) }
    IN  describeFails \cup UNION { afterList(e) : e \in GetDbInstanceTags(current) }

ApplyAttempt(resource_type, id_form, current, new) ==
    CASE resource_type = "EC2" -> EC2ApplyAttempt(current, new)
      [] resource_type = "Lambda" -> LambdaApplyAttempt(id_form, current, new)
      [] resource_type = "EBS" -> EBSApplyAttempt(current, new)
      [] resource_type = "S3" -> S3ApplyAttempt(current, new)
      [] resource_type = "RDS" -> RDSApplyAttempt(current, new)

\* tenacity: EC2 and Lambda retry ClientError only, the others any exception.
Retryable(resource_type, error) ==
    IF resource_type \in {"EC2", "Lambda"} THEN error = ClientErrorMsg ELSE TRUE

\* @retry(stop_after_attempt(3), reraise=True) around apply_tags: the final
\* outcomes of a call that starts its attempt number n with the provider
\* holding current.
RECURSIVE ApplyTagsFrom(_, _, _, _, _)
ApplyTagsFrom(resource_type, id_form, current, new, n) ==
    UNION { IF o.result # "raise" \/ n >= MAX_ATTEMPTS \/ ~Retryable(resource_type, o.error)
            THEN { o }
            ELSE ApplyTagsFrom(resource_type, id_form, o.tags, new, n + 1) :
            o \in ApplyAttempt(resource_type, id_form, current, new) }

ApplyTags(resource_type, id_form, current, new) ==
    ApplyTagsFrom(resource_type, id_form, current, new, 1)

\* Mutation: the provider rejects a tag key the resource already carries.
FaultFreeApplyTagsRejectsExisting(resource_type, id_form, current, new) ==
    IF (DOMAIN current) \cap (DOMAIN new) # {} \/ (resource_type = "Lambda" /\ id_form # "arn")
    THEN Raised(current, IF resource_type \in {"EC2", "Lambda"}
                         THEN ClientErrorMsg ELSE AWSErrorMsg)
    ELSE Returned(MergeTags(current, new))

\* apply_tags when no remote call fails: the first attempt runs to its end.
\* create_tags, tag_resource and add_tags_to_resource add or overwrite the
\* given keys; S3 puts the merge of what it read; RDS removes every key it
\* listed and adds the merge.  A Lambda function named otherwise than by its
\* ARN is rejected on each of the attempts.
FaultFreeApplyTags(resource_type, id_form, current, new) ==
    CASE resource_type \in {"EC2", "EBS"} -> Returned(MergeTags(current, new))
      [] resource_type = "Lambda" ->
            IF id_form = "arn" THEN Returned(MergeTags(current, new))
            ELSE Raised(current, ClientErrorMsg)
      [] resource_type = "S3" -> Returned(MergeTags(current, new))
      [] resource_type = "RDS" ->
            Returned(MergeTags(RemoveKeys(current, DOMAIN current),
                               MergeTags(current, new)))

(***************************************************************************)
(* BulkTaggingEngine.bulk_tag_resources                                    *)
(***************************************************************************)
VARIABLES
    resources,        \* the resources argument (list of AWSResource)
    tags,             \* the tags argument
    dry_run,          \* the dry_run argument
    fail_fast,        \* the fail_fast argument
    batch_size,       \* self.batch_size
    enable_rollback,  \* self.enable_rollback
    provider,         \* provider side: the tag set of each resource
    operations,       \* the TagOperation list
    scanners,         \* self._scanners: the cached (resource_type, region) keys
    successful,       \* local counter
    failed,           \* local counter
    rolled_back,      \* local counter
    batch_start,      \* i of the batch loop (0-based offset)
    op_index,         \* position of the inner loop in operations (1-based)
    completed_ops,    \* _rollback_operations: the completed operations
    rb_index,         \* position of the rollback loop in completed_ops
    result,           \* the returned BulkTaggingResult
    pc,               \* position in bulk_tag_resources
    apply_log,        \* history: the apply_tags calls made, in order
    rollback_started, \* history: _rollback_operations was called
    rollback_errors   \* history: re-applications that raised during rollback

\* A caller that repeats the call, and the health of the remote service.
VARIABLES
    call,                 \* number of the bulk_tag_resources call being made
    remote_faults,        \* the remote calls of this call may fail
    provider_after_first  \* history: the provider side when call 1 returned

\* MultiRegionScanner.scan_all_regions (multi_region_scanner.py).
VARIABLES
    scan_resource_type,   \* the resource_type argument
    target_regions,       \* the region list, fixed when the call starts
    max_workers,          \* self.max_workers
    scan_outcomes,        \* what scanner.scan() does for each listed region
    submitted,            \* number of tasks handed to the executor so far
    task_state,           \* executor: each task queued, running or finished
    futures,              \* the result each future holds once it is done
    region_results,       \* the local list the results are collected in
    multi_region_result,  \* the returned MultiRegionScanResult
    mr_pc,                \* position of the calling thread
    completion_order,     \* history: the tasks in the order they finished
    scanner_of            \* history: the scanner object each task constructed

mrvars == << scan_resource_type, target_regions, max_workers, scan_outcomes,
             submitted, task_state, futures, region_results,
             multi_region_result, mr_pc, completion_order, scanner_of >>

\* No scan_all_regions call is being made.
MultiRegionIdle ==
    /\ scan_resource_type = "EC2"
    /\ target_regions = << >>
    /\ max_workers = 1
    /\ scan_outcomes = << >>
    /\ submitted = 0
    /\ task_state = << >>
    /\ futures = << >>
    /\ region_results = << >>
    /\ multi_region_result = << >>
    /\ mr_pc = "idle"
    /\ completion_order = << >>
    /\ scanner_of = << >>

\* One call of a scanner's scan or apply_tags under its @retry decorator.
VARIABLES
    scanner_kind,      \* the scanner class the method belongs to
    method,            \* "scan" or "apply_tags"
    listing,           \* scan: the tag sets of the resources the provider lists
    attempt_number,    \* tenacity: number of the current attempt
    retry_pc,          \* attempt, wait, returned or raised
    attempt_failures,  \* history: the remote error of each failed attempt
    waits,             \* history: the seconds slept before each re-attempt
    raised,            \* the exception the call ends with, if any
    returned,          \* the value the call returns, if any
    page_size,         \* scan: the number of resources the provider lists per page
    item_faults,       \* history: what inspecting each listed resource met with
    requested_tags,    \* apply_tags: the tags argument
    remote_tags,       \* apply_tags: the tag set the provider holds for the resource
    tags_before        \* history: the tag set the provider held before the call

retryvars == << scanner_kind, method, listing, attempt_number, retry_pc,
                attempt_failures, waits, raised, returned, page_size,
                item_faults, requested_tags, remote_tags, tags_before >>

\* No scanner method is being called.
RetryIdle ==
    /\ scanner_kind = "EC2"
    /\ method = "scan"
    /\ listing = << >>
    /\ attempt_number = 0
    /\ retry_pc = "idle"
    /\ attempt_failures = << >>
    /\ waits = << >>
    /\ raised = << >>
    /\ returned = << >>
    /\ page_size = 1
    /\ item_faults = << >>
    /\ requested_tags = EmptyTags
    /\ remote_tags = EmptyTags
    /\ tags_before = EmptyTags

\* MultiRegionScanner.scan_all_regions_async, called with the arguments of
\* the scan_all_regions call.
VARIABLES
    async_submitted,   \* number of run_in_executor calls made so far
    async_task_state,  \* default executor: each task queued, running or finished
    async_futures,     \* the result each task's future holds once it is done
    async_scanner_of,  \* history: the scanner object each task constructed
    async_result,      \* the returned MultiRegionScanResult
    async_pc           \* position of the coroutine

asyncvars == << async_submitted, async_task_state, async_futures,
                async_scanner_of, async_result, async_pc >>

\* No scan_all_regions_async call is being made.
AsyncIdle ==
    /\ async_submitted = 0
    /\ async_task_state = << >>
    /\ async_futures = << >>
    /\ async_scanner_of = << >>
    /\ async_result = << >>
    /\ async_pc = "idle"

\* One call of MultiRegionScanner.generate_multi_region_report.
VARIABLES
    report_input,   \* the scan_result argument (a MultiRegionScanResult)
    report,         \* the returned report
    report_pc       \* idle, call or done

reportvars == << report_input, report, report_pc >>

\* No report is being generated.
ReportIdle ==
    /\ report_input = << >>
    /\ report = << >>
    /\ report_pc = "idle"

\* A ConversationManager (memory/conversation_manager.py).
VARIABLES
    conv_max_history,  \* self.max_history
    conv_turns,        \* self.turns
    conv_calls,        \* number of add_turn calls made so far
    conv_raised,       \* the last add_turn call raised ValueError
    conv_added         \* history: the turns appended since the last clear()

convvars == << conv_max_history, conv_turns, conv_calls, conv_raised, conv_added >>

\* No ConversationManager is in use.
ConversationIdle ==
    /\ conv_max_history = 0
    /\ conv_turns = << >>
    /\ conv_calls = 0
    /\ conv_raised = FALSE
    /\ conv_added = << >>

\* An LLMBackendFactory, its ResponseCache and its backends (llm_backends/).
VARIABLES
    llm_primary,           \* self.primary_backend_name
    llm_fallback,          \* the name of self.fallback_backend, if there is one
    llm_enable_cache,      \* self.enable_cache
    llm_ttl,               \* self.cache.ttl
    llm_now,               \* time.time()
    llm_cache,             \* self.cache.cache: the entries key -> (response, timestamp)
    llm_pc,                \* position of the generate call
    llm_messages,          \* generate: the messages argument
    llm_use_fallback,      \* generate: the use_fallback argument
    llm_answers,           \* the provider's answers to the attempts of the running backend call
    llm_result,            \* what generate returned or raised
    llm_invocations,       \* history: the backend calls this generate call made
    llm_produced,          \* history: per message list, when a backend last produced a response for it
    llm_produced_before,   \* history: llm_produced of the messages when the call began
    llm_checked_at,        \* history: the time of the call's cache lookup
    llm_hit_age            \* history: the age of the cache entry the call returned

llmvars == << llm_primary, llm_fallback, llm_enable_cache,
              llm_ttl, llm_now, llm_cache, llm_pc, llm_messages,
              llm_use_fallback, llm_answers, llm_result, llm_invocations,
              llm_produced, llm_produced_before, llm_checked_at, llm_hit_age >>

\* No LLMBackendFactory is in use.
LLMIdle ==
    /\ llm_primary = "openai"
    /\ llm_fallback = << >>
    /\ llm_enable_cache = FALSE
    /\ llm_ttl = 0
    /\ llm_now = 0
    /\ llm_cache = {}
    /\ llm_pc = "unused"
    /\ llm_messages = 0
    /\ llm_use_fallback = FALSE
    /\ llm_answers = << >>
    /\ llm_result = << >>
    /\ llm_invocations = << >>
    /\ llm_produced = {}
    /\ llm_produced_before = << >>
    /\ llm_checked_at = 0
    /\ llm_hit_age = << >>

\* The variables of the other components.
beyond_bulk == << mrvars, retryvars, reportvars, asyncvars, convvars, llmvars >>

\* The variables one bulk_tag_resources call leaves alone.
outside == << call, remote_faults, provider_after_first, beyond_bulk >>

vars == << resources, tags, dry_run, fail_fast, batch_size, enable_rollback,
           provider, operations, scanners, successful, failed, rolled_back,
           batch_start, op_index, completed_ops, rb_index, result, pc,
           apply_log, rollback_started, rollback_errors, outside >>

inputs == << resources, tags, dry_run, fail_fast, batch_size, enable_rollback >>

Regions == {"us-west-2"}

\* AWSResource.resource_id: "instance ID, function name, etc."; a function is
\* recorded under its name (lambda_scanner.py line 185), never its ARN.
IdForms(resource_type) ==
    IF resource_type = "Lambda" THEN {"function_name"} ELSE {"id"}

\* The identifier a kind's apply_tags hands to the provider's tagging call:
\* LambdaScanner.apply_tags passes it as Resource= of tag_resource, which
\* takes the function ARN; the others pass the id their scan records
\* (instance id, volume id, bucket name, DB instance identifier).
AcceptedIdForms(resource_type) ==
    IF resource_type = "Lambda" THEN {"arn"} ELSE {"id"}

\* resource_type values a caller can put in an AWSResource: the enum members
\* and anything else (the field is not validated).
InputResourceTypes == ResourceTypes \cup {"Other"}

AWSResources ==
    UNION { [resource_type : {rt}, id_form : IdForms(rt), region : Regions,
             tags : OriginalTagSets] : rt \in InputResourceTypes }

\* The lists of one kind, as tag_by_filter and a scan produce them.
ResourceLists ==
    UNION { { l \in [1..n -> AWSResources] :
                \A a, b \in 1..n : l[a].resource_type = l[b].resource_type } :
            n \in 0..MaxResources }

NoResult == [total_operations |-> -1]

Init ==
    /\ resources \in ResourceLists
    /\ tags \in RequestTagSets
    /\ dry_run \in BOOLEAN
    /\ fail_fast \in BOOLEAN
    /\ batch_size \in 1..MaxBatchSize
    /\ enable_rollback \in BOOLEAN
    /\ provider = [r \in DOMAIN resources |-> resources[r].tags]
    /\ operations = << >>
    /\ scanners = {}
    /\ successful = 0
    /\ failed = 0
    /\ rolled_back = 0
    /\ batch_start = 0
    /\ op_index = 0
    /\ completed_ops = << >>
    /\ rb_index = 0
    /\ result = NoResult
    /\ pc = "create_operations"
    /\ apply_log = << >>
    /\ rollback_started = FALSE
    /\ rollback_errors = 0
    /\ call = 1
    /\ remote_faults = TRUE
    /\ provider_after_first = << >>
    /\ MultiRegionIdle
    /\ RetryIdle
    /\ ReportIdle
    /\ AsyncIdle
    /\ ConversationIdle
    /\ LLMIdle

\* TagOperation(...) for one resource: status PENDING, error None.
NewTagOperation(resource, id, tags_to_apply) ==
    [ resource_id |-> id,
      id_form |-> resource.id_form,
      resource_type |-> resource.resource_type,
      region |-> resource.region,
      tags_to_apply |-> tags_to_apply,
      original_tags |-> resource.tags,
      status |-> PENDING,
      error |-> NoError ]

\* Mutation: the dry_run flag is ignored.
TakesDryRunBranchNever(dry) == FALSE

\* "if dry_run:" of bulk_tag_resources.
TakesDryRunBranch(dry) == dry

\* Lines 157-169: one TagOperation per resource, then the dry-run test.
CreateOperations ==
    /\ pc = "create_operations"
    /\ operations' = [r \in DOMAIN resources |-> NewTagOperation(resources[r], r, tags)]
    /\ pc' = IF TakesDryRunBranch(dry_run) THEN "dry_run" ELSE "batch_loop"
    /\ UNCHANGED << inputs, outside, provider, scanners, successful, failed, rolled_back,
                    batch_start, op_index, completed_ops, rb_index, result,
                    apply_log, rollback_started, rollback_errors >>

\* Lines 170-182: every operation is marked completed and the result returned.
DryRun ==
    /\ pc = "dry_run"
    /\ operations' = [r \in DOMAIN operations |-> [operations[r] EXCEPT !.status = COMPLETED]]
    /\ result' = [ total_operations |-> Len(operations),
                   successful |-> Len(operations),
                   failed |-> 0,
                   rolled_back |-> 0,
                   dry_run |-> TRUE ]
    /\ pc' = "done"
    /\ UNCHANGED << inputs, outside, provider, scanners, successful, failed, rolled_back,
                    batch_start, op_index, completed_ops, rb_index,
                    apply_log, rollback_started, rollback_errors >>

\* Mutation: the slice leaves out the last operation of the batch.
BatchEndOneShort == IF batch_start + batch_size < Len(operations)
                    THEN batch_start + batch_size - 1 ELSE Len(operations) - 1

\* The last position of the batch operations[i:i + batch_size].
BatchEnd == IF batch_start + batch_size < Len(operations)
            THEN batch_start + batch_size ELSE Len(operations)

\* Line 189: for i in range(0, len(operations), self.batch_size).
NextBatch ==
    /\ pc = "batch_loop"
    /\ IF batch_start < Len(operations)
       THEN /\ op_index' = batch_start + 1
            /\ pc' = "op_loop"
       ELSE /\ op_index' = op_index
            /\ pc' = "rollback_check"
    /\ UNCHANGED << inputs, outside, provider, operations, scanners, successful, failed,
                    rolled_back, batch_start, completed_ops, rb_index, result,
                    apply_log, rollback_started, rollback_errors >>

\* Lines 193-195: the next operation of the batch becomes IN_PROGRESS.
BeginOperation ==
    /\ pc = "op_loop"
    /\ op_index <= BatchEnd
    /\ operations' = [operations EXCEPT ![op_index].status = IN_PROGRESS]
    /\ pc' = "op_body"
    /\ UNCHANGED << inputs, outside, provider, scanners, successful, failed, rolled_back,
                    batch_start, op_index, completed_ops, rb_index, result,
                    apply_log, rollback_started, rollback_errors >>

\* _get_scanner: "if resource_type not in scanner_map: raise ValueError".
ScannerSupported(resource_type) == resource_type \in ResourceTypes

ScannerKey(op) == << op.resource_type, op.region >>

\* scanner.apply_tags(resource_id, tags) as the engine sees it: an outcome of
\* the kind's scanner, or the False return that BaseResourceScanner.apply_tags
\* documents ("True if successful, False otherwise"), which changes nothing.
ScannerApplyTags(op, current, new) ==
    IF remote_faults
    THEN ApplyTags(op.resource_type, op.id_form, current, new)
            \cup { ReturnedFalse(current) }
    ELSE { FaultFreeApplyTags(op.resource_type, op.id_form, current, new) }

LogEntry(op, new, phase, outcome) ==
    [op |-> op.resource_id, tags |-> new, phase |-> phase, outcome |-> outcome.result]

\* Mutation: the except clause always breaks.
BreaksOnExceptionAlways(ff) == TRUE

\* "if fail_fast: break" in the except clause (lines 224-226).
BreaksOnException(ff) == ff

\* Lines 198-201, 218-226: _get_scanner raises for an unsupported type.
ScannerUnavailable ==
    /\ pc = "op_body"
    /\ ~ScannerSupported(operations[op_index].resource_type)
    /\ operations' = [operations EXCEPT ![op_index].status = FAILED,
                                        ![op_index].error = ValueErrorMsg]
    /\ failed' = failed + 1
    /\ IF BreaksOnException(fail_fast)
       THEN pc' = "batch_end" /\ op_index' = op_index
       ELSE pc' = "op_loop" /\ op_index' = op_index + 1
    /\ UNCHANGED << inputs, outside, provider, scanners, successful, rolled_back,
                    batch_start, completed_ops, rb_index, result,
                    apply_log, rollback_started, rollback_errors >>

\* Lines 198-212: apply_tags returns True.
OperationCompleted ==
    /\ pc = "op_body"
    /\ ScannerSupported(operations[op_index].resource_type)
    /\ \E o \in ScannerApplyTags(operations[op_index], provider[op_index],
                                 operations[op_index].tags_to_apply) :
        /\ o.result = "True"
        /\ provider' = [provider EXCEPT ![op_index] = o.tags]
        /\ apply_log' = Append(apply_log,
                LogEntry(operations[op_index], operations[op_index].tags_to_apply, "apply", o))
    /\ scanners' = scanners \cup { ScannerKey(operations[op_index]) }
    /\ operations' = [operations EXCEPT ![op_index].status = COMPLETED]
    /\ successful' = successful + 1
    /\ pc' = "op_loop"
    /\ op_index' = op_index + 1
    /\ UNCHANGED << inputs, outside, failed, rolled_back, batch_start, completed_ops,
                    rb_index, result, rollback_started, rollback_errors >>

\* Lines 198-208, 213-216: apply_tags returns False; the loop goes on.
OperationReturnsFalse ==
    /\ pc = "op_body"
    /\ ScannerSupported(operations[op_index].resource_type)
    /\ \E o \in ScannerApplyTags(operations[op_index], provider[op_index],
                                 operations[op_index].tags_to_apply) :
        /\ o.result = "False"
        /\ provider' = [provider EXCEPT ![op_index] = o.tags]
        /\ apply_log' = Append(apply_log,
                LogEntry(operations[op_index], operations[op_index].tags_to_apply, "apply", o))
    /\ scanners' = scanners \cup { ScannerKey(operations[op_index]) }
    /\ operations' = [operations EXCEPT ![op_index].status = FAILED,
                                        ![op_index].error = ReturnedFalseMsg]
    /\ failed' = failed + 1
    /\ pc' = "op_loop"
    /\ op_index' = op_index + 1
    /\ UNCHANGED << inputs, outside, successful, rolled_back, batch_start, completed_ops,
                    rb_index, result, rollback_started, rollback_errors >>

\* Lines 198-208, 218-226: apply_tags raises after its retries.
OperationRaises ==
    /\ pc = "op_body"
    /\ ScannerSupported(operations[op_index].resource_type)
    /\ \E o \in ScannerApplyTags(operations[op_index], provider[op_index],
                                 operations[op_index].tags_to_apply) :
        /\ o.result = "raise"
        /\ provider' = [provider EXCEPT ![op_index] = o.tags]
        /\ apply_log' = Append(apply_log,
                LogEntry(operations[op_index], operations[op_index].tags_to_apply, "apply", o))
        /\ operations' = [operations EXCEPT ![op_index].status = FAILED,
                                            ![op_index].error = o.error]
    /\ scanners' = scanners \cup { ScannerKey(operations[op_index]) }
    /\ failed' = failed + 1
    /\ IF BreaksOnException(fail_fast)
       THEN pc' = "batch_end" /\ op_index' = op_index
       ELSE pc' = "op_loop" /\ op_index' = op_index + 1
    /\ UNCHANGED << inputs, outside, successful, rolled_back, batch_start, completed_ops,
                    rb_index, result, rollback_started, rollback_errors >>

\* The positions of the current batch.
Batch == (batch_start + 1) .. BatchEnd

\* Mutation: a failure in the batch stops the run whatever fail_fast says.
StopsAfterBatchAnyFailure(ff, ops, batch) ==
    \E b \in batch : ops[b].status = FAILED

\* Line 229: "if fail_fast and any(op.status == FAILED for op in batch)".
StopsAfterBatch(ff, ops, batch) ==
    ff /\ \E b \in batch : ops[b].status = FAILED

\* Lines 228-230: the batch is over (exhausted, or left by break).
EndBatch ==
    /\ \/ pc = "op_loop" /\ op_index > BatchEnd
       \/ pc = "batch_end"
    /\ IF StopsAfterBatch(fail_fast, operations, Batch)
       THEN /\ pc' = "rollback_check"
            /\ batch_start' = batch_start
       ELSE /\ pc' = "batch_loop"
            /\ batch_start' = batch_start + batch_size
    /\ UNCHANGED << inputs, outside, provider, operations, scanners, successful, failed,
                    rolled_back, op_index, completed_ops, rb_index, result,
                    apply_log, rollback_started, rollback_errors >>

\* Mutation: rollback does not wait for a failure.
RollbackFiresWithoutFailure(rollback_enabled, failed_count) ==
    rollback_enabled

\* Mutation: "failed > 1" in place of "failed > 0".
RollbackFiresOffByOne(rollback_enabled, failed_count) ==
    rollback_enabled /\ failed_count > 1

\* Line 233: "if self.enable_rollback and failed > 0".
RollbackFires(rollback_enabled, failed_count) ==
    rollback_enabled /\ failed_count > 0

\* Mutation: every operation that was attempted is selected for rollback.
CompletedOperationsOrFailed(ops) ==
    SelectSeq([k \in 1..Len(ops) |-> k],
              LAMBDA k : ops[k].status \in {COMPLETED, FAILED})

\* Mutation: only the batch the loop stopped in is looked at.
CompletedOperationsOfBatch(ops) ==
    SelectSeq([k \in 1..Len(ops) |-> k],
              LAMBDA k : ops[k].status = COMPLETED /\ k \in Batch)

\* Lines 271-274: the operations whose status is COMPLETED, in list order.
CompletedOperations(ops) ==
    SelectSeq([k \in 1..Len(ops) |-> k], LAMBDA k : ops[k].status = COMPLETED)

\* Lines 232-235 and 268-276: decide on rollback; entering it selects the
\* completed operations.
RollbackCheck ==
    /\ pc = "rollback_check"
    /\ IF RollbackFires(enable_rollback, failed)
       THEN /\ completed_ops' = CompletedOperations(operations)
            /\ rb_index' = 1
            /\ rollback_started' = TRUE
            /\ pc' = "rollback"
       ELSE /\ pc' = "build_result"
            /\ UNCHANGED << completed_ops, rb_index, rollback_started >>
    /\ UNCHANGED << inputs, outside, provider, operations, scanners, successful, failed,
                    rolled_back, batch_start, op_index, result, apply_log,
                    rollback_errors >>

\* Mutation: the original tags are re-applied also when there are none.
HasOriginalTagsAlways(op) == TRUE

\* "if operation.original_tags:" of _rollback_operations.
HasOriginalTags(op) == op.original_tags # EmptyTags

\* Lines 278-300: the original tags are re-applied; the return value of
\* apply_tags is not looked at.
RollbackRestore ==
    /\ pc = "rollback"
    /\ rb_index <= Len(completed_ops)
    /\ LET k == completed_ops[rb_index]
           op == operations[k]
       IN  /\ HasOriginalTags(op)
           /\ \E o \in ScannerApplyTags(op, provider[k], op.original_tags) :
                /\ o.result # "raise"
                /\ provider' = [provider EXCEPT ![k] = o.tags]
                /\ apply_log' = Append(apply_log,
                        LogEntry(op, op.original_tags, "rollback", o))
           /\ operations' = [operations EXCEPT ![k].status = ROLLED_BACK]
    /\ rolled_back' = rolled_back + 1
    /\ rb_index' = rb_index + 1
    /\ UNCHANGED << inputs, outside, scanners, successful, failed, batch_start, op_index,
                    completed_ops, result, pc, rollback_started, rollback_errors >>

\* Mutation: the operation is counted as rolled back also when its
\* re-application raised.
RolledBackAfterRaiseCounted(count) == count + 1

\* The exception leaves the try block before "rolled_back += 1" (line 300):
\* the counter keeps its value.
RolledBackAfterRaise(count) == count

\* Mutation: the exception ends the rollback loop.
NextAfterRaiseStops(index, count) == count + 1

\* The try/except is inside the "for operation in completed_ops" loop (lines
\* 278-303): after the except clause the loop goes on with the next operation.
NextAfterRaise(index, count) == index + 1

\* Lines 278-290, 302-303: re-applying raises; the error is only logged.
RollbackRaises ==
    /\ pc = "rollback"
    /\ rb_index <= Len(completed_ops)
    /\ LET k == completed_ops[rb_index]
           op == operations[k]
       IN  /\ HasOriginalTags(op)
           /\ \E o \in ScannerApplyTags(op, provider[k], op.original_tags) :
                /\ o.result = "raise"
                /\ provider' = [provider EXCEPT ![k] = o.tags]
                /\ apply_log' = Append(apply_log,
                        LogEntry(op, op.original_tags, "rollback", o))
    /\ rolled_back' = RolledBackAfterRaise(rolled_back)
    /\ rb_index' = NextAfterRaise(rb_index, Len(completed_ops))
    /\ rollback_errors' = rollback_errors + 1
    /\ UNCHANGED << inputs, outside, operations, scanners, successful, failed,
                    batch_start, op_index, completed_ops, result, pc,
                    rollback_started >>

\* Lines 291-300: no original tags; a warning is logged, nothing is called.
RollbackNoOriginalTags ==
    /\ pc = "rollback"
    /\ rb_index <= Len(completed_ops)
    /\ ~HasOriginalTags(operations[completed_ops[rb_index]])
    /\ operations' = [operations EXCEPT ![completed_ops[rb_index]].status = ROLLED_BACK]
    /\ rolled_back' = rolled_back + 1
    /\ rb_index' = rb_index + 1
    /\ UNCHANGED << inputs, outside, provider, scanners, successful, failed, batch_start,
                    op_index, completed_ops, result, pc, apply_log,
                    rollback_started, rollback_errors >>

\* Line 305: _rollback_operations returns.
RollbackReturn ==
    /\ pc = "rollback"
    /\ rb_index > Len(completed_ops)
    /\ pc' = "build_result"
    /\ UNCHANGED << inputs, outside, provider, operations, scanners, successful, failed,
                    rolled_back, batch_start, op_index, completed_ops, rb_index,
                    result, apply_log, rollback_started, rollback_errors >>

\* Mutation: the counter is reported as it is.
ReportedSuccessfulNotForced(successful_count, failed_count, rollback_enabled) ==
    successful_count

\* Line 241: "successful if not self.enable_rollback or failed == 0 else 0".
ReportedSuccessful(successful_count, failed_count, rollback_enabled) ==
    IF ~rollback_enabled \/ failed_count = 0 THEN successful_count ELSE 0

\* Lines 237-254: the BulkTaggingResult of a real run.
BuildResult ==
    /\ pc = "build_result"
    /\ result' = [ total_operations |-> Len(operations),
                   successful |-> ReportedSuccessful(successful, failed, enable_rollback),
                   failed |-> failed,
                   rolled_back |-> rolled_back,
                   dry_run |-> FALSE ]
    /\ pc' = "done"
    /\ UNCHANGED << inputs, outside, provider, operations, scanners, successful, failed,
                    rolled_back, batch_start, op_index, completed_ops, rb_index,
                    apply_log, rollback_started, rollback_errors >>

Next ==
    \/ CreateOperations
    \/ DryRun
    \/ NextBatch
    \/ BeginOperation
    \/ ScannerUnavailable
    \/ OperationCompleted
    \/ OperationRaises
    \/ OperationReturnsFalse
    \/ EndBatch
    \/ RollbackCheck
    \/ RollbackRestore
    \/ RollbackRaises
    \/ RollbackNoOriginalTags
    \/ RollbackReturn
    \/ BuildResult

Spec == Init /\ [][Next]_vars

\* bulk_tag_resources is the sequential code of the calling thread: while
\* the call has not returned the thread takes its next step, every remote
\* call returning or raising.
SpecFair == Spec /\ WF_vars(Next)

(***************************************************************************)
(* The call repeated: after a call that succeeded for every resource the   *)
(* caller makes the same call again (same resources, same tags, same       *)
(* flags, same engine), and this time no remote call fails.                *)
(***************************************************************************)
SucceededForEveryResource(res) ==
    res.failed = 0 /\ res.successful = res.total_operations

\* Lines 132-167 entered a second time: the locals of the call start afresh,
\* the engine keeps its scanner cache, the provider keeps its tags.
Rerun ==
    /\ pc = "done"
    /\ call = 1
    /\ SucceededForEveryResource(result)
    /\ call' = 2
    /\ remote_faults' = FALSE
    /\ provider_after_first' = provider
    /\ operations' = << >>
    /\ successful' = 0
    /\ failed' = 0
    /\ rolled_back' = 0
    /\ batch_start' = 0
    /\ op_index' = 0
    /\ completed_ops' = << >>
    /\ rb_index' = 0
    /\ result' = NoResult
    /\ apply_log' = << >>
    /\ pc' = "create_operations"
    /\ UNCHANGED << inputs, provider, scanners, rollback_started, rollback_errors,
                    beyond_bulk >>

NextRerun == Next \/ Rerun

SpecRerun == Init /\ [][NextRerun]_vars

(***************************************************************************)
(* MultiRegionScanner.scan_all_regions: the calling thread submits one     *)
(* _scan_region task per listed region to a ThreadPoolExecutor of          *)
(* max_workers threads, waits for the futures in the order it submitted    *)
(* them, and aggregates.  The worker threads run concurrently with it.     *)
(***************************************************************************)
bulkvars == << resources, tags, dry_run, fail_fast, batch_size, enable_rollback,
               provider, operations, scanners, successful, failed, rolled_back,
               batch_start, op_index, completed_ops, rb_index, result, pc,
               apply_log, rollback_started, rollback_errors,
               call, remote_faults, provider_after_first >>

\* The variables one scan_all_regions call leaves alone.
beyond_mr == << bulkvars, retryvars, reportvars, asyncvars, convvars, llmvars >>

\* No bulk_tag_resources call is being made.
BulkIdle ==
    /\ resources = << >> /\ tags = EmptyTags
    /\ dry_run = FALSE /\ fail_fast = FALSE
    /\ batch_size = 1 /\ enable_rollback = FALSE
    /\ provider = << >> /\ operations = << >> /\ scanners = {}
    /\ successful = 0 /\ failed = 0 /\ rolled_back = 0
    /\ batch_start = 0 /\ op_index = 0
    /\ completed_ops = << >> /\ rb_index = 0
    /\ result = NoResult /\ pc = "idle"
    /\ apply_log = << >> /\ rollback_started = FALSE /\ rollback_errors = 0
    /\ call = 0 /\ remote_faults = FALSE /\ provider_after_first = << >>

\* Optional[...] values: None, or the value.
None == << >>
Some(x) == << x >>

\* COMMON_REGIONS (lines 98-102).
RegionPool == << "us-east-1", "us-west-2", "eu-west-1", "eu-central-1",
                 "ap-northeast-1", "ap-southeast-1" >>

\* Region lists a caller passes (the "elif regions:" branch): non-empty, a
\* name may be listed more than once.  The names are labels, so the lists
\* are taken up to renaming: each position repeats a name used before it or
\* takes the next name of the pool.
RegionLists ==
    UNION { { [k \in 1..n |-> RegionPool[idx[k]]] :
                idx \in { f \in [1..n -> 1..n] :
                            \A k \in 1..n :
                                \A m \in 1..(f[k] - 1) : \E j \in 1..(k - 1) : f[j] = m } } :
            n \in 1..MaxRegions }

PermissionErrorMsg == "AccessDenied"
UnsupportedTypeMsg == "Unsupported resource type"

\* What scanner.scan() of one region does, after its own retries: it returns
\* a ScanResult with so many tagged and untagged resources, or it raises.
ScanReturns(tagged_count, untagged_count) ==
    [raises |-> FALSE, tagged |-> tagged_count, untagged |-> untagged_count,
     message |-> ""]
ScanRaises(msg) ==
    [raises |-> TRUE, tagged |-> 0, untagged |-> 0, message |-> msg]

\* A region holds at most MaxFound resources.
ScanOutcomes ==
    { ScanRaises(PermissionErrorMsg) } \cup
    UNION { { ScanReturns(t, u) : u \in 0..(MaxFound - t) } : t \in 0..MaxFound }

\* The ScanResult a region's scanner returns.
RegionScanned(region, tagged_count, untagged_count) ==
    [ region |-> region,
      total_resources |-> tagged_count + untagged_count,
      tagged_resources |->
        [j \in 1..tagged_count |-> [region |-> region, index |-> j, is_tagged |-> TRUE]],
      untagged_resources |->
        [j \in 1..untagged_count |-> [region |-> region, index |-> j, is_tagged |-> FALSE]] ]

\* Mutation: a scan that found nothing counts as fully compliant.
ComplianceRateEmptyIsFull(tagged_count, total) ==
    IF total > 0 THEN (tagged_count * 100) \div total ELSE 100

\* ScanResult.tagging_compliance_rate, in whole percent.
ComplianceRate(tagged_count, total) ==
    IF total > 0 THEN (tagged_count * 100) \div total ELSE 0

\* ScanResult.tagging_compliance_rate of a ScanResult.
TaggingComplianceRate(scan_result) ==
    ComplianceRate(Len(scan_result.tagged_resources), scan_result.total_resources)

\* _get_scanner_class: "if resource_type not in scanner_map: raise ValueError".
ScannerClassKnown(kind) == kind \in ResourceTypes

\* Mutation: a scan that raised is returned as a successful, empty result.
ScanRegionHidesFailure(region, kind, outcome) ==
    [ region |-> region,
      success |-> TRUE,
      scan_result |-> Some(RegionScanned(region, outcome.tagged, outcome.untagged)),
      error |-> None ]

\* _scan_region (lines 139-194): the RegionScanResult of one region; every
\* exception raised inside it becomes a failed result with an error string.
ScanRegion(region, kind, outcome) ==
    IF ~ScannerClassKnown(kind)
    THEN [ region |-> region, success |-> FALSE, scan_result |-> None,
           error |-> Some(<< "Failed to scan ", region, ": ", UnsupportedTypeMsg >>) ]
    ELSE IF outcome.raises
    THEN [ region |-> region, success |-> FALSE, scan_result |-> None,
           error |-> Some(<< "Failed to scan ", region, ": ", outcome.message >>) ]
    ELSE [ region |-> region, success |-> TRUE,
           scan_result |-> Some(RegionScanned(region, outcome.tagged, outcome.untagged)),
           error |-> None ]

\* No scanner object.
NoScanner == 0

\* Mutation: the scanner is taken from a cache keyed by region, as
\* BulkTaggingEngine._get_scanner does.
ScannerForCachedByRegion(kind, objects, regions, i) ==
    IF ~ScannerClassKnown(kind) THEN NoScanner
    ELSE IF \E j \in DOMAIN objects : objects[j] # NoScanner /\ regions[j] = regions[i]
    THEN objects[CHOOSE j \in DOMAIN objects :
                    objects[j] # NoScanner /\ regions[j] = regions[i]]
    ELSE 1 + Cardinality({ j \in DOMAIN objects : objects[j] # NoScanner })

\* "scanner = scanner_class(region=region, profile=self.profile)": every
\* _scan_region call constructs a scanner object of its own, whose session
\* and client are created inside it (BaseResourceScanner.__init__, session);
\* an unknown kind raises before any scanner is constructed.  Objects are
\* numbered in the order of their construction.
ScannerFor(kind, objects, regions, i) ==
    IF ~ScannerClassKnown(kind) THEN NoScanner
    ELSE 1 + Cardinality({ j \in DOMAIN objects : objects[j] # NoScanner })

InitMultiRegion ==
    /\ BulkIdle
    /\ ConversationIdle
    /\ LLMIdle
    /\ RetryIdle
    /\ ReportIdle
    /\ AsyncIdle
    /\ scan_resource_type \in {"EC2", "Other"}
    /\ target_regions \in RegionLists
    /\ max_workers \in 1..MaxWorkers
    /\ scan_outcomes \in [DOMAIN target_regions ->
            IF ScannerClassKnown(scan_resource_type)
            THEN ScanOutcomes ELSE { ScanRaises(UnsupportedTypeMsg) }]
    /\ submitted = 0
    /\ task_state = << >>
    /\ futures = << >>
    /\ region_results = << >>
    /\ multi_region_result = None
    /\ mr_pc = "submit"
    /\ completion_order = << >>
    /\ scanner_of = << >>

\* Lines 232-235: executor.submit for the next region of the list.
SubmitRegion ==
    /\ mr_pc = "submit"
    /\ submitted < Len(target_regions)
    /\ submitted' = submitted + 1
    /\ task_state' = Append(task_state, "queued")
    /\ futures' = Append(futures, None)
    /\ scanner_of' = Append(scanner_of, NoScanner)
    /\ UNCHANGED << beyond_mr, scan_resource_type, target_regions, max_workers,
                    scan_outcomes, region_results, multi_region_result, mr_pc,
                    completion_order >>

\* The dict comprehension is complete; the collection loop begins.
SubmitDone ==
    /\ mr_pc = "submit"
    /\ submitted = Len(target_regions)
    /\ mr_pc' = "collect"
    /\ UNCHANGED << beyond_mr, scanner_of, scan_resource_type, target_regions, max_workers,
                    scan_outcomes, submitted, task_state, futures,
                    region_results, multi_region_result, completion_order >>

Running == { i \in DOMAIN task_state : task_state[i] = "running" }

\* Mutation: the pool starts a thread for every task.
WorkerAvailableAlways(running_count, workers) == TRUE

\* ThreadPoolExecutor(max_workers=self.max_workers): a task is taken from
\* the queue only by one of at most max_workers threads.
WorkerAvailable(running_count, workers) == running_count < workers

\* A worker thread takes the oldest queued task and calls _scan_region.
StartScan(i) ==
    /\ i \in DOMAIN task_state
    /\ task_state[i] = "queued"
    /\ \A j \in 1..(i - 1) : task_state[j] # "queued"
    /\ WorkerAvailable(Cardinality(Running), max_workers)
    /\ task_state' = [task_state EXCEPT ![i] = "running"]
    /\ scanner_of' = [scanner_of EXCEPT ![i] =
            ScannerFor(scan_resource_type, scanner_of, target_regions, i)]
    /\ UNCHANGED << beyond_mr, scan_resource_type, target_regions, max_workers,
                    scan_outcomes, submitted, futures, region_results,
                    multi_region_result, mr_pc, completion_order >>

\* _scan_region returns; the future holds its RegionScanResult.
FinishScan(i) ==
    /\ i \in DOMAIN task_state
    /\ task_state[i] = "running"
    /\ task_state' = [task_state EXCEPT ![i] = "finished"]
    /\ futures' = [futures EXCEPT ![i] =
            Some(ScanRegion(target_regions[i], scan_resource_type, scan_outcomes[i]))]
    /\ completion_order' = Append(completion_order, i)
    /\ UNCHANGED << beyond_mr, scanner_of, scan_resource_type, target_regions, max_workers,
                    scan_outcomes, submitted, region_results,
                    multi_region_result, mr_pc >>

\* Mutation: the futures are taken in the order they complete.
NextFutureAsCompleted(collected_count) ==
    IF collected_count < Len(completion_order)
    THEN completion_order[collected_count + 1] ELSE 0

\* "for future in futures": the dict is iterated in insertion order, which is
\* the order of submission.
NextFuture(collected_count) == collected_count + 1

\* Mutation: the result is put in front of the list.
CollectedInFront(results, region_result) == << region_result >> \o results

\* "region_results.append(result)" (lines 241 and 245).
Collected(results, region_result) == Append(results, region_result)

\* Lines 238-253: future.result() of the next future, once it is done.
CollectResult ==
    /\ mr_pc = "collect"
    /\ Len(region_results) < Len(target_regions)
    /\ LET k == NextFuture(Len(region_results))
       IN  /\ k \in DOMAIN futures
           /\ futures[k] # None
           /\ region_results' = Collected(region_results, futures[k][1])
    /\ UNCHANGED << beyond_mr, scanner_of, scan_resource_type, target_regions, max_workers,
                    scan_outcomes, submitted, task_state, futures,
                    multi_region_result, mr_pc, completion_order >>

\* "if result.success and result.scan_result".
Counted(region_result) ==
    region_result.success /\ region_result.scan_result # None

\* Mutation: "=" in place of "+=".
AddCountOverwrites(total, count) == count

\* "total += count" of the aggregation loop.
AddCount(total, count) == total + count

RECURSIVE SumCounts(_)
SumCounts(counts) ==
    IF counts = << >> THEN 0
    ELSE AddCount(SumCounts(SubSeq(counts, 1, Len(counts) - 1)), counts[Len(counts)])

\* "else: failed_scans += 1" of the aggregation loop.
FailedScans(results) == Len(SelectSeq(results, LAMBDA r : ~Counted(r)))

\* Lines 255-290: the MultiRegionScanResult built from the collected list.
AggregateOf(kind, regions, results) ==
    LET counted == SelectSeq(results, Counted)
        total_of == SumCounts([k \in DOMAIN counted |->
                        counted[k].scan_result[1].total_resources])
        untagged_of == SumCounts([k \in DOMAIN counted |->
                        Len(counted[k].scan_result[1].untagged_resources)])
        tagged_of == SumCounts([k \in DOMAIN counted |->
                        Len(counted[k].scan_result[1].tagged_resources)])
    IN  [ resource_type |-> kind,
          regions_scanned |-> regions,
          successful_scans |-> SumCounts([k \in DOMAIN counted |-> 1]),
          failed_scans |-> FailedScans(results),
          total_resources |-> total_of,
          total_untagged |-> untagged_of,
          total_tagged |-> tagged_of,
          tagging_compliance_rate |-> ComplianceRate(tagged_of, total_of),
          region_results |-> results ]

\* Lines 255-299: aggregate and return.
AggregateResults ==
    /\ mr_pc = "collect"
    /\ Len(region_results) = Len(target_regions)
    /\ multi_region_result' =
            Some(AggregateOf(scan_resource_type, target_regions, region_results))
    /\ mr_pc' = "done"
    /\ UNCHANGED << beyond_mr, scanner_of, scan_resource_type, target_regions, max_workers,
                    scan_outcomes, submitted, task_state, futures,
                    region_results, completion_order >>

\* MultiRegionScanResult.get_all_untagged_resources.
RECURSIVE GetAllUntaggedResources(_)
GetAllUntaggedResources(results) ==
    IF results = << >> THEN << >>
    ELSE LET r == results[Len(results)]
             before == GetAllUntaggedResources(SubSeq(results, 1, Len(results) - 1))
         IN  IF Counted(r) THEN before \o r.scan_result[1].untagged_resources
             ELSE before

\* Mutation: a failed region is entered with its error only.
SummaryEntryErrorOnly(region_result) ==
    IF Counted(region_result)
    THEN LET sr == region_result.scan_result[1]
         IN  [ total |-> sr.total_resources,
               untagged |-> Len(sr.untagged_resources),
               tagged |-> Len(sr.tagged_resources),
               compliance_rate |->
                    ComplianceRate(Len(sr.tagged_resources), sr.total_resources) ]
    ELSE [ error |-> region_result.error ]

\* One entry of get_region_summary (the scan duration is left out).
SummaryEntry(region_result) ==
    IF Counted(region_result)
    THEN LET sr == region_result.scan_result[1]
         IN  [ total |-> sr.total_resources,
               untagged |-> Len(sr.untagged_resources),
               tagged |-> Len(sr.tagged_resources),
               compliance_rate |->
                    ComplianceRate(Len(sr.tagged_resources), sr.total_resources) ]
    ELSE [ total |-> 0, error |-> region_result.error ]

\* MultiRegionScanResult.get_region_summary: a dict keyed by region name; a
\* later result of the list replaces an earlier one of the same region.
GetRegionSummary(results) ==
    [ name \in { results[k].region : k \in DOMAIN results } |->
        LET last == CHOOSE k \in DOMAIN results :
                        /\ results[k].region = name
                        /\ \A j \in DOMAIN results : results[j].region = name => j <= k
        IN  SummaryEntry(results[last]) ]

NextMultiRegion ==
    \/ SubmitRegion
    \/ SubmitDone
    \/ \E i \in 1..MaxRegions : StartScan(i)
    \/ \E i \in 1..MaxRegions : FinishScan(i)
    \/ CollectResult
    \/ AggregateResults

SpecMultiRegion == InitMultiRegion /\ [][NextMultiRegion]_vars

\* The operating system schedules every thread and every scan returns or
\* raises: a step that can be taken is taken.
SpecMultiRegionFair ==
    InitMultiRegion /\ [][NextMultiRegion]_vars /\ WF_vars(NextMultiRegion)

(***************************************************************************)
(* MultiRegionScanner.scan_all_regions_async: the coroutine hands one      *)
(* _scan_region call per listed region to the event loop's default         *)
(* executor, awaits them all with asyncio.gather, and aggregates.  Here a  *)
(* caller makes the asynchronous call and then the thread-pool call with   *)
(* the same arguments, and each region's scan has the same outcome in both.*)
(***************************************************************************)
beyond_async == << bulkvars, retryvars, reportvars, convvars, llmvars >>

\* The arguments and what they determine, which no step changes.
scan_arguments == << scan_resource_type, target_regions, max_workers, scan_outcomes >>

\* The state of the scan_all_regions call.
scan_call == << submitted, task_state, futures, region_results,
                multi_region_result, completion_order, scanner_of >>

InitEntryPoints ==
    /\ BulkIdle
    /\ ConversationIdle
    /\ LLMIdle
    /\ RetryIdle
    /\ ReportIdle
    /\ scan_resource_type \in {"EC2", "Other"}
    /\ target_regions \in RegionLists
    /\ max_workers \in 1..MaxWorkers
    /\ scan_outcomes \in [DOMAIN target_regions ->
            IF ScannerClassKnown(scan_resource_type)
            THEN ScanOutcomes ELSE { ScanRaises(UnsupportedTypeMsg) }]
    /\ submitted = 0
    /\ task_state = << >>
    /\ futures = << >>
    /\ region_results = << >>
    /\ multi_region_result = None
    /\ mr_pc = "idle"
    /\ completion_order = << >>
    /\ scanner_of = << >>
    /\ async_submitted = 0
    /\ async_task_state = << >>
    /\ async_futures = << >>
    /\ async_scanner_of = << >>
    /\ async_result = None
    /\ async_pc = "submit"

\* Lines 335-343: loop.run_in_executor(None, self._scan_region, ...) for the
\* next region of the list.
AsyncSubmitRegion ==
    /\ async_pc = "submit"
    /\ async_submitted < Len(target_regions)
    /\ async_submitted' = async_submitted + 1
    /\ async_task_state' = Append(async_task_state, "queued")
    /\ async_futures' = Append(async_futures, None)
    /\ async_scanner_of' = Append(async_scanner_of, NoScanner)
    /\ UNCHANGED << beyond_async, scan_arguments, scan_call, mr_pc,
                    async_result, async_pc >>

\* The task list is complete; the coroutine awaits asyncio.gather.
AsyncSubmitDone ==
    /\ async_pc = "submit"
    /\ async_submitted = Len(target_regions)
    /\ async_pc' = "gather"
    /\ UNCHANGED << beyond_async, scan_arguments, scan_call, mr_pc,
                    async_submitted, async_task_state, async_futures,
                    async_scanner_of, async_result >>

AsyncRunning == { i \in DOMAIN async_task_state : async_task_state[i] = "running" }

\* A thread of the default executor takes the oldest queued task and calls
\* _scan_region; self.max_workers plays no part.
AsyncStartScan(i) ==
    /\ i \in DOMAIN async_task_state
    /\ async_task_state[i] = "queued"
    /\ \A j \in 1..(i - 1) : async_task_state[j] # "queued"
    /\ Cardinality(AsyncRunning) < DEFAULT_EXECUTOR_WORKERS
    /\ async_task_state' = [async_task_state EXCEPT ![i] = "running"]
    /\ async_scanner_of' = [async_scanner_of EXCEPT ![i] =
            ScannerFor(scan_resource_type, async_scanner_of, target_regions, i)]
    /\ UNCHANGED << beyond_async, scan_arguments, scan_call, mr_pc,
                    async_submitted, async_futures, async_result, async_pc >>

\* _scan_region returns; the task's future holds its RegionScanResult.
AsyncFinishScan(i) ==
    /\ i \in DOMAIN async_task_state
    /\ async_task_state[i] = "running"
    /\ async_task_state' = [async_task_state EXCEPT ![i] = "finished"]
    /\ async_futures' = [async_futures EXCEPT ![i] =
            Some(ScanRegion(target_regions[i], scan_resource_type, scan_outcomes[i]))]
    /\ UNCHANGED << beyond_async, scan_arguments, scan_call, mr_pc,
                    async_submitted, async_scanner_of, async_result, async_pc >>

\* Lines 346-364: asyncio.gather returns the results in the order of the
\* tasks it was given; a result that is an exception would be replaced by a
\* failed RegionScanResult, but _scan_region raises no Exception.
ProcessedResults(gathered) == [k \in DOMAIN gathered |-> gathered[k][1]]

\* Mutation: the rate is the share of the untagged resources.
AsyncComplianceRateOfUntagged(tagged_count, total) ==
    IF total > 0 THEN ((total - tagged_count) * 100) \div total ELSE 0

\* Lines 381-385: "(total_tagged / total_resources * 100) if total_resources
\* > 0 else 0.0", in whole percent.
AsyncComplianceRate(tagged_count, total) ==
    IF total > 0 THEN (tagged_count * 100) \div total ELSE 0

\* Lines 366-400: the MultiRegionScanResult built from processed_results.
AsyncAggregateOf(kind, regions, processed) ==
    LET counted == SelectSeq(processed, LAMBDA r : r.success /\ r.scan_result # None)
        total_of == SumCounts([k \in DOMAIN counted |->
                        counted[k].scan_result[1].total_resources])
        untagged_of == SumCounts([k \in DOMAIN counted |->
                        Len(counted[k].scan_result[1].untagged_resources)])
        tagged_of == SumCounts([k \in DOMAIN counted |->
                        Len(counted[k].scan_result[1].tagged_resources)])
    IN  [ resource_type |-> kind,
          regions_scanned |-> regions,
          successful_scans |-> Len(counted),
          failed_scans |-> Len(processed) - Len(counted),
          total_resources |-> total_of,
          total_untagged |-> untagged_of,
          total_tagged |-> tagged_of,
          tagging_compliance_rate |-> AsyncComplianceRate(tagged_of, total_of),
          region_results |-> processed ]

\* Lines 346-400: every task is done; gather hands over the results, the
\* coroutine aggregates them and returns.
AsyncGather ==
    /\ async_pc = "gather"
    /\ \A i \in DOMAIN async_task_state : async_task_state[i] = "finished"
    /\ async_result' = Some(AsyncAggregateOf(scan_resource_type, target_regions,
                                             ProcessedResults(async_futures)))
    /\ async_pc' = "done"
    /\ UNCHANGED << beyond_async, scan_arguments, scan_call, mr_pc,
                    async_submitted, async_task_state, async_futures,
                    async_scanner_of >>

\* The caller, holding the asynchronous result, calls scan_all_regions.
CallScanAllRegions ==
    /\ async_pc = "done"
    /\ mr_pc = "idle"
    /\ mr_pc' = "submit"
    /\ UNCHANGED << beyond_async, scan_arguments, scan_call, asyncvars >>

NextEntryPoints ==
    \/ AsyncSubmitRegion
    \/ AsyncSubmitDone
    \/ \E i \in 1..MaxRegions : AsyncStartScan(i)
    \/ \E i \in 1..MaxRegions : AsyncFinishScan(i)
    \/ AsyncGather
    \/ CallScanAllRegions
    \/ NextMultiRegion

SpecEntryPoints == InitEntryPoints /\ [][NextEntryPoints]_vars

(***************************************************************************)
(* MultiRegionScanner.generate_multi_region_report: a function of the      *)
(* MultiRegionScanResult it is given.                                      *)
(***************************************************************************)
beyond_report == << bulkvars, mrvars, retryvars, asyncvars, convvars, llmvars >>

\* ALL_REGIONS (lines 84-92).
AllRegions == << "us-east-1", "us-east-2", "us-west-1", "us-west-2",
                 "eu-west-1", "eu-west-2", "eu-west-3", "eu-central-1", "eu-north-1",
                 "ap-south-1", "ap-northeast-1", "ap-northeast-2", "ap-northeast-3",
                 "ap-southeast-1", "ap-southeast-2", "ca-central-1", "sa-east-1",
                 "af-south-1", "me-south-1" >>

\* The region lists of the scans reported on: the first regions of
\* ALL_REGIONS, and such a list whose last entry names its first region a
\* second time.
ReportRegionLists ==
    UNION { { [k \in 1..n |-> AllRegions[k]] } \cup
            { [k \in 1..n |-> IF k = n THEN AllRegions[1] ELSE AllRegions[k]] : x \in {m \in {n} : m > 1} } :
            n \in 1..MaxReportRegions }

\* The scan outcomes of the regions reported on: the scan raises, or the
\* region holds one tagged resource and some untagged ones.
ReportOutcomes ==
    { ScanRaises(PermissionErrorMsg) } \cup
    { ScanReturns(1, u) : u \in 0..MaxReportUntagged }

\* The MultiRegionScanResult scan_all_regions returns for a region list and
\* the regions' scan outcomes.
ScanAllRegionsResult(kind, regions, outcomes) ==
    AggregateOf(kind, regions,
                [k \in DOMAIN regions |-> ScanRegion(regions[k], kind, outcomes[k])])

\* region_summary.items(): the keys of the dict in insertion order, which is
\* the order in which the region names first occur in region_results.
RECURSIVE SummaryKeys(_)
SummaryKeys(results) ==
    IF results = << >> THEN << >>
    ELSE LET before == SummaryKeys(SubSeq(results, 1, Len(results) - 1))
             name == results[Len(results)].region
         IN  IF \E k \in DOMAIN before : before[k] = name
             THEN before ELSE Append(before, name)

\* "x[1].get('untagged', 0)".
UntaggedKey(data) == IF "untagged" \in DOMAIN data THEN data.untagged ELSE 0

\* Mutation: reverse=True is left out.
ComesFirstAscending(earlier_key, later_key) == earlier_key <= later_key

\* sorted(..., reverse=True): an item stays before a later item of the list
\* iff its key is larger or equal (the sort is stable).
ComesFirst(earlier_key, later_key) == earlier_key >= later_key

\* sorted(items, key=untagged, reverse=True).
RECURSIVE SortedByUntagged(_)
SortedByUntagged(items) ==
    IF items = << >> THEN << >>
    ELSE LET sorted == SortedByUntagged(SubSeq(items, 1, Len(items) - 1))
             item == items[Len(items)]
             ahead == SelectSeq(sorted, LAMBDA e :
                         ComesFirst(UntaggedKey(e.data), UntaggedKey(item.data)))
             behind == SelectSeq(sorted, LAMBDA e :
                         ~ComesFirst(UntaggedKey(e.data), UntaggedKey(item.data)))
         IN  ahead \o << item >> \o behind

\* Lines 417-425: the (region, data) pairs without an 'error' key, sorted.
RegionsByUntagged(results) ==
    LET region_summary == GetRegionSummary(results)
        keys == SummaryKeys(results)
        kept == SelectSeq(keys, LAMBDA name : "error" \notin DOMAIN region_summary[name])
    IN  SortedByUntagged([k \in DOMAIN kept |->
                            [region |-> kept[k], data |-> region_summary[kept[k]]]])

\* "regions_by_untagged[:5]".
TopOffenders(sorted) ==
    SubSeq(sorted, 1, IF Len(sorted) > TOP_OFFENDERS THEN TOP_OFFENDERS ELSE Len(sorted))

\* f"{value:.1f}%": the number becomes a string with one decimal.
FormatPercent(value) == [formatted |-> value, decimals |-> 1, suffix |-> "%"]

\* _generate_recommendations (lines 456-502), by the severity labels.
GenerateRecommendations(scan) ==
    (IF scan.total_untagged > 100 THEN << "CRITICAL" >> ELSE << >>) \o
    (IF scan.tagging_compliance_rate < 50 THEN << "HIGH" >> ELSE << >>) \o
    (IF scan.failed_scans > 0 THEN << "MEDIUM" >> ELSE << >>) \o
    (CASE scan.resource_type = "S3" -> << "S3 SECURITY" >>
       [] scan.resource_type = "RDS" -> << "RDS COMPLIANCE" >>
       [] scan.resource_type = "EBS" -> << "EBS COST" >>
       [] OTHER -> << >>)

\* generate_multi_region_report (lines 404-454; the durations are left out).
GenerateMultiRegionReport(scan) ==
    LET top_offenders == TopOffenders(RegionsByUntagged(scan.region_results))
    IN  [ scan_summary |->
            [ resource_type |-> scan.resource_type,
              regions_scanned |-> Len(scan.regions_scanned),
              successful_scans |-> scan.successful_scans,
              failed_scans |-> scan.failed_scans,
              total_resources |-> scan.total_resources,
              total_untagged |-> scan.total_untagged,
              total_tagged |-> scan.total_tagged,
              compliance_rate |-> FormatPercent(scan.tagging_compliance_rate) ],
          region_breakdown |-> GetRegionSummary(scan.region_results),
          top_offending_regions |->
            [ k \in DOMAIN top_offenders |->
                [ region |-> top_offenders[k].region,
                  untagged_count |-> top_offenders[k].data.untagged,
                  total_count |-> top_offenders[k].data.total,
                  compliance_rate |->
                        FormatPercent(top_offenders[k].data.compliance_rate) ] ],
          recommendations |-> GenerateRecommendations(scan) ]

InitReport ==
    /\ BulkIdle
    /\ ConversationIdle
    /\ LLMIdle
    /\ MultiRegionIdle
    /\ RetryIdle
    /\ AsyncIdle
    /\ report_input \in
            UNION { { Some(ScanAllRegionsResult(kind, regions, outcomes)) :
                        outcomes \in [DOMAIN regions -> ReportOutcomes] } :
                    kind \in {"EC2", "S3"}, regions \in ReportRegionLists }
    /\ report = None
    /\ report_pc = "call"

\* The call runs to its end and returns the report.
GenerateReport ==
    /\ report_pc = "call"
    /\ report' = Some(GenerateMultiRegionReport(report_input[1]))
    /\ report_pc' = "done"
    /\ UNCHANGED << beyond_report, report_input >>

NextReport == GenerateReport

SpecReport == InitReport /\ [][NextReport]_vars

(***************************************************************************)
(* One call of scan or apply_tags of a scanner.  tenacity runs the method  *)
(* body (an attempt); when the body raises, the retry predicate and the    *)
(* stop condition decide between sleeping and re-attempting, and           *)
(* re-raising (reraise=True).                                              *)
(***************************************************************************)
beyond_retry == << bulkvars, mrvars, reportvars, asyncvars, convvars, llmvars >>

\* What a remote call fails with: the exception class botocore raises (a
\* ClientError for an error response of the service, a BotoCoreError for a
\* failure on the client side) and what the failure is about.
RemoteErrors ==
    { [class |-> "ClientError", category |-> "transient"],        \* Throttling
      [class |-> "ClientError", category |-> "authentication"],   \* ExpiredToken
      [class |-> "ClientError", category |-> "permission"],       \* AccessDenied
      [class |-> "ClientError", category |-> "not_found"],        \* ...NotFound
      [class |-> "BotoCoreError", category |-> "transient"],      \* ReadTimeoutError
      [class |-> "BotoCoreError", category |-> "authentication"]  \* NoCredentialsError
    }

\* The exception that leaves the method body when its remote call fails.
\* EC2 and Lambda log and re-raise; S3, RDS and EBS wrap: scan turns a
\* ClientError into ResourceScanError and a BotoCoreError into AWSError,
\* apply_tags turns a ClientError into AWSError.
RaisedBy(kind, called, remote_error) ==
    IF kind \in {"EC2", "Lambda"} THEN remote_error.class
    ELSE IF called = "scan"
         THEN IF remote_error.class = "ClientError"
              THEN "ResourceScanError" ELSE "AWSError"
         ELSE IF remote_error.class = "ClientError"
              THEN "AWSError" ELSE remote_error.class

\* Mutation: stop_after_attempt(2).
StopAfterAttemptTwo(attempts_made) == attempts_made >= 2

\* stop=stop_after_attempt(3).
StopAfterAttempt(attempts_made) == attempts_made >= MAX_ATTEMPTS

\* wait=wait_exponential(multiplier=1, min=2, max=10): the seconds slept
\* after the given attempt, max(min, min(multiplier * 2^(attempt - 1), max)).
WaitExponential(attempts_made) ==
    LET exp == 2 ^ (attempts_made - 1)
        capped == IF exp < 10 THEN exp ELSE 10
    IN  IF capped > 2 THEN capped ELSE 2

\* The pages in which the provider lists the given resources: at least one
\* response, each of at most the given number of resources.
PagesOf(items, size) ==
    LET count == IF Len(items) = 0 THEN 1 ELSE (Len(items) + size - 1) \div size
    IN  [ p \in 1..count |->
            [ k \in 1..(IF p * size <= Len(items) THEN size
                        ELSE Len(items) - (p - 1) * size) |->
                (p - 1) * size + k ] ]

\* The response to a listing request: the positions of the resources of the
\* page asked for, and the token of the next page when there is one.
ListingResponse(pages, token) ==
    [ items |-> pages[token],
      next_token |-> IF token < Len(pages) THEN Some(token + 1) ELSE None ]

\* "while True: ... marker = response.get('NextMarker'); if not marker:
\* break", and "for page in paginator.paginate()": every page is requested.
RECURSIVE FollowPages(_, _)
FollowPages(pages, token) ==
    LET response == ListingResponse(pages, token)
    IN  IF response.next_token = None THEN response.items
        ELSE response.items \o FollowPages(pages, response.next_token[1])

\* EC2Scanner.scan: one describe_instances call; the NextToken of the
\* response is not looked at.
FirstPageOnly(pages) == ListingResponse(pages, 1).items

\* The positions of the provider's resources a scan attempt gets to see.
\* list_buckets answers with every bucket at once.
ListedPositions(kind, items, size) ==
    CASE kind = "EC2" -> FirstPageOnly(PagesOf(items, size))
      [] kind = "S3" -> [k \in 1..Len(items) |-> k]
      [] OTHER -> FollowPages(PagesOf(items, size), 1)

\* The tag sets of the resources a scan attempt gets to see.  (No scan
\* changes the order of the listing, and the one that does not see every
\* resource sees the first ones.)
ListedBy(kind, items, size) ==
    LET positions == ListedPositions(kind, items, size)
    IN  [ k \in DOMAIN positions |-> items[positions[k]] ]

\* What inspecting one listed resource can meet with.  EC2 and EBS read
\* everything from the listing; EBS parses each volume under "except
\* Exception".  Lambda (list_tags) and RDS (list_tags_for_resource) fetch
\* the tags with a call of their own; S3 calls get_bucket_location and then
\* get_bucket_tagging.  "not_found" and "access_denied" are answers to the
\* first call, "tags_not_found" and "tags_error" answers to the tags call.
ItemFaults(kind) ==
    CASE kind = "EC2" -> {"none"}
      [] kind = "EBS" -> {"none", "malformed"}
      [] kind \in {"Lambda", "RDS"} -> {"none", "tags_not_found", "tags_error"}
      [] kind = "S3" -> {"none", "not_found", "access_denied",
                         "tags_not_found", "tags_error"}

\* How scan deals with the listed resource.  The error of a tags call is
\* caught where the call is made (_parse_function, _get_bucket_tags,
\* _get_db_instance_tags) and the resource is recorded without tags; S3
\* skips a bucket whose location call answers NoSuchBucket or AccessDenied;
\* EBS skips a volume it cannot parse.
HandlingOf(kind, fault) ==
    CASE fault = "none" -> "recorded"
      [] fault \in {"tags_not_found", "tags_error"} -> "tags_unread"
      [] fault \in {"not_found", "access_denied", "malformed"} -> "skipped"

\* The ways scan deals with a listed resource, by kind.
Handlings(kind) == { HandlingOf(kind, fault) : fault \in ItemFaults(kind) }

\* The AWSResource list one scan attempt builds.
ScannedResources(listed, handling) ==
    LET kept == SelectSeq([k \in 1..Len(listed) |-> k],
                          LAMBDA k : handling[k] # "skipped")
    IN  [ j \in DOMAIN kept |->
            [ resource_id |-> kept[j],
              tags |-> IF handling[kept[j]] = "tags_unread"
                       THEN EmptyTags ELSE listed[kept[j]] ] ]

\* AWSResource.is_tagged: len(self.tags) > 0.
IsTagged(resource) == Cardinality(DOMAIN resource.tags) > 0

\* Mutation: the untagged list is not filtered.
UntaggedOfAll(scanned) == scanned

\* "[r for r in resources if not r.is_tagged]".
UntaggedOf(scanned) == SelectSeq(scanned, LAMBDA r : ~IsTagged(r))

\* "[r for r in resources if r.is_tagged]".
TaggedOf(scanned) == SelectSeq(scanned, IsTagged)

\* The ScanResult every scan method builds from its resource list.
ScanResultOf(kind, scanned) ==
    [ resource_type |-> kind,
      total_resources |-> Len(scanned),
      tagged_resources |-> TaggedOf(scanned),
      untagged_resources |-> UntaggedOf(scanned),
      resources |-> scanned ]

\* The lists of resources a provider may hold.
Listings == UNION { [1..n -> OriginalTagSets] : n \in 0..MaxListed }

InitRetry ==
    /\ BulkIdle
    /\ ConversationIdle
    /\ LLMIdle
    /\ MultiRegionIdle
    /\ ReportIdle
    /\ AsyncIdle
    /\ scanner_kind \in ResourceTypes
    /\ method \in {"scan", "apply_tags"}
    /\ listing \in IF method = "scan" THEN Listings ELSE { << >> }
    /\ attempt_number = 1
    /\ retry_pc = "attempt"
    /\ attempt_failures = << >>
    /\ waits = << >>
    /\ raised = None
    /\ returned = None
    /\ page_size \in IF method = "scan" THEN 1..MaxListed ELSE {1}
    /\ item_faults = << >>
    /\ requested_tags \in IF method = "apply_tags" THEN RequestTagSets ELSE {EmptyTags}
    /\ tags_before \in IF method = "apply_tags" THEN OriginalTagSets ELSE {EmptyTags}
    /\ remote_tags = tags_before

\* The tag sets an attempt that raises may leave at the provider: a scan
\* writes nothing; an apply_tags attempt leaves what its remote calls did
\* before the one that failed.  The resource is named as the provider wants
\* it (a function by its ARN).
TagsLeftByFailure(kind, called, held, new_tags) ==
    IF called = "apply_tags"
    THEN { o.tags : o \in { x \in ApplyAttempt(kind, "arn", held, new_tags) :
                                x.result = "raise" } }
    ELSE { held }

\* An attempt of scan runs to its end and returns the ScanResult.
ScanAttemptReturns ==
    /\ retry_pc = "attempt"
    /\ method = "scan"
    /\ LET listed == ListedBy(scanner_kind, listing, page_size)
       IN  \E faults \in [DOMAIN listed -> ItemFaults(scanner_kind)] :
            /\ returned' = Some(ScanResultOf(scanner_kind,
                    ScannedResources(listed,
                        [k \in DOMAIN listed |-> HandlingOf(scanner_kind, faults[k])])))
            /\ item_faults' = faults
    /\ retry_pc' = "returned"
    /\ UNCHANGED << beyond_retry, requested_tags, tags_before, remote_tags,
                    page_size, scanner_kind, method,
                    listing, attempt_number,
                    attempt_failures, waits, raised >>

\* An attempt of apply_tags runs to its end and returns True.
ApplyAttemptReturns ==
    /\ retry_pc = "attempt"
    /\ method = "apply_tags"
    /\ \E o \in ApplyAttempt(scanner_kind, "arn", remote_tags, requested_tags) :
        /\ o.result = "True"
        /\ remote_tags' = o.tags
    /\ returned' = Some([value |-> TRUE])
    /\ retry_pc' = "returned"
    /\ UNCHANGED << beyond_retry, requested_tags, tags_before, page_size,
                    item_faults, scanner_kind, method,
                    listing, attempt_number,
                    attempt_failures, waits, raised >>

\* The remote call of the attempt fails and tenacity retries: the exception
\* passes the retry predicate and the stop condition does not hold.
AttemptRetried ==
    /\ retry_pc = "attempt"
    /\ \E remote_error \in RemoteErrors :
        /\ Retryable(scanner_kind, RaisedBy(scanner_kind, method, remote_error))
        /\ ~StopAfterAttempt(attempt_number)
        /\ attempt_failures' = Append(attempt_failures, remote_error)
    /\ remote_tags' \in TagsLeftByFailure(scanner_kind, method, remote_tags, requested_tags)
    /\ retry_pc' = "wait"
    /\ UNCHANGED << beyond_retry, requested_tags, tags_before, page_size,
                    item_faults, scanner_kind, method,
                    listing, attempt_number,
                    waits, raised, returned >>

\* The remote call of the attempt fails and the exception is re-raised.
AttemptReraised ==
    /\ retry_pc = "attempt"
    /\ \E remote_error \in RemoteErrors :
        /\ \/ ~Retryable(scanner_kind, RaisedBy(scanner_kind, method, remote_error))
           \/ StopAfterAttempt(attempt_number)
        /\ attempt_failures' = Append(attempt_failures, remote_error)
        /\ raised' = Some(RaisedBy(scanner_kind, method, remote_error))
    /\ remote_tags' \in TagsLeftByFailure(scanner_kind, method, remote_tags, requested_tags)
    /\ retry_pc' = "raised"
    /\ UNCHANGED << beyond_retry, requested_tags, tags_before, page_size,
                    item_faults, scanner_kind, method,
                    listing, attempt_number,
                    waits, returned >>

\* The backoff sleep, then the next attempt.
BackoffWait ==
    /\ retry_pc = "wait"
    /\ waits' = Append(waits, WaitExponential(attempt_number))
    /\ attempt_number' = attempt_number + 1
    /\ retry_pc' = "attempt"
    /\ UNCHANGED << beyond_retry, requested_tags, tags_before, remote_tags,
                    page_size, item_faults, scanner_kind, method,
                    listing,
                    attempt_failures, raised, returned >>

NextRetry ==
    \/ ScanAttemptReturns
    \/ ApplyAttemptReturns
    \/ AttemptRetried
    \/ AttemptReraised
    \/ BackoffWait

SpecRetry == InitRetry /\ [][NextRetry]_vars

(***************************************************************************)
(* ConversationManager                                                     *)
(***************************************************************************)
beyond_conv == << bulkvars, mrvars, retryvars, reportvars, asyncvars, llmvars >>

\* "if role not in ['user', 'assistant', 'system']: raise ValueError".
ValidRoles == {"user", "assistant", "system"}

\* The roles a caller passes: the valid ones and some other string.
CallerRoles == ValidRoles \cup {"tool"}

\* ConversationManager(max_history): no turns yet.
InitConversation ==
    /\ BulkIdle
    /\ MultiRegionIdle
    /\ RetryIdle
    /\ ReportIdle
    /\ AsyncIdle
    /\ LLMIdle
    /\ conv_max_history \in 1..MaxHistory
    /\ conv_turns = << >>
    /\ conv_calls = 0
    /\ conv_raised = FALSE
    /\ conv_added = << >>

\* ConversationTurn(role, content): the content of the n-th call is n.
ConversationTurn(role, content) == [role |-> role, content |-> content]

\* "[t for t in self.turns if t.role == 'system']".
SystemTurns(turns) == SelectSeq(turns, LAMBDA t : t.role = "system")

\* "[t for t in self.turns if t.role != 'system']".
OtherTurns(turns) == SelectSeq(turns, LAMBDA t : t.role # "system")

\* Python's seq[start:] : a negative start counts from the end, and both are
\* clamped to the list; -0 is 0, the start of the list.
SliceFrom(seq, start) ==
    LET first == IF start < 0
                 THEN (IF Len(seq) + start > 0 THEN Len(seq) + start ELSE 0)
                 ELSE (IF start < Len(seq) THEN start ELSE Len(seq))
    IN  SubSeq(seq, first + 1, Len(seq))

\* Lines 109-117: the list after the trimming that follows the append.
Trimmed(turns, max_history) ==
    IF Len(turns) > max_history
    THEN LET system_turns == SystemTurns(turns)
             other_turns == OtherTurns(turns)
             trimmed_others == SliceFrom(other_turns,
                                         0 - (max_history - Len(system_turns)))
         IN  system_turns \o trimmed_others
    ELSE turns

\* add_turn(role, content) with a valid role (lines 99-117).
AddTurn ==
    /\ conv_max_history > 0
    /\ conv_calls < MaxTurns
    /\ \E role \in ValidRoles :
        LET turn == ConversationTurn(role, conv_calls + 1)
        IN  /\ conv_turns' = Trimmed(Append(conv_turns, turn), conv_max_history)
            /\ conv_added' = Append(conv_added, turn)
    /\ conv_calls' = conv_calls + 1
    /\ conv_raised' = FALSE
    /\ UNCHANGED << beyond_conv, conv_max_history >>

\* add_turn with another role (lines 99-100): ValueError, nothing is added.
AddTurnInvalidRole ==
    /\ conv_max_history > 0
    /\ conv_calls < MaxTurns
    /\ \E role \in CallerRoles \ ValidRoles :
        conv_raised' = TRUE
    /\ conv_calls' = conv_calls + 1
    /\ UNCHANGED << beyond_conv, conv_max_history, conv_turns, conv_added >>

\* clear() (lines 172-175).
ClearHistory ==
    /\ conv_max_history > 0
    /\ conv_turns # << >>
    /\ conv_turns' = << >>
    /\ conv_added' = << >>
    /\ conv_raised' = FALSE
    /\ UNCHANGED << beyond_conv, conv_max_history, conv_calls >>

NextConversation ==
    \/ AddTurn
    \/ AddTurnInvalidRole
    \/ ClearHistory

SpecConversation == InitConversation /\ [][NextConversation]_vars

(***************************************************************************)
(* LLMBackendFactory.generate, ResponseCache and the backends' generate    *)
(***************************************************************************)
beyond_llm == << bulkvars, mrvars, retryvars, reportvars, asyncvars, convvars >>

\* The names _create_backend knows.
BackendNames == {"openai", "anthropic"}

\* The model a backend is constructed with (the default of its __init__).
DefaultModel(name) ==
    IF name = "openai" THEN "gpt-3.5-turbo" ELSE "claude-3-5-sonnet-20241022"

\* The message lists callers ask about, and the texts a provider answers with
\* (a completion may be empty).
MessageLists == {"question 1", "question 2"}
Contents == {"", "answer"}

\* ResponseCache._make_key: the md5 of the JSON of the messages, the model and
\* the temperature.  Both backends are constructed with the same temperature
\* (the default 0.3, or the one in backend_kwargs), so that two keys differ
\* exactly when the messages or the model differ.
MakeKey(messages, model) == << "md5", messages, model >>

\* Python's truth value of a str ("if cached_content:").
Truthy(content) == content # ""

\* ResponseCache.get (lines 70-94): the cached response if the key is there
\* and "time.time() - timestamp < self.ttl"; an expired entry is deleted.
CacheGet(cache, key, now, ttl) ==
    IF \E e \in cache : e.key = key
    THEN LET e == CHOOSE e \in cache : e.key = key
         IN  IF now - e.timestamp < ttl
             THEN [ value |-> Some(e.response), age |-> Some(now - e.timestamp),
                    cache |-> cache ]
             ELSE [ value |-> None, age |-> None, cache |-> cache \ {e} ]
    ELSE [ value |-> None, age |-> None, cache |-> cache ]

\* ResponseCache.set (lines 96-107): "self.cache[key] = (response, time.time())".
CacheSet(cache, key, response, now) ==
    { e \in cache : e.key # key } \cup
    { [ key |-> key, response |-> response, timestamp |-> now ] }

\* The history of the responses the backends produced, kept the same way.
Produced(history, messages, now) ==
    { h \in history : h.messages # messages } \cup
    { [ messages |-> messages, time |-> now ] }

\* LLMResponse(content, model, provider, cached) and a raised exception.
Response(content, model, provider_name, cached) ==
    [ kind |-> "response", content |-> content, model |-> model,
      provider |-> provider_name, cached |-> cached ]

RaisedError(error, message) ==
    [ kind |-> "raise", error |-> error, message |-> message ]

InitLLM ==
    /\ BulkIdle
    /\ MultiRegionIdle
    /\ RetryIdle
    /\ ReportIdle
    /\ AsyncIdle
    /\ ConversationIdle
    /\ llm_primary \in BackendNames
    /\ llm_fallback \in { None } \cup { Some(name) : name \in BackendNames }
    /\ llm_enable_cache \in BOOLEAN
    /\ llm_ttl \in 1..MaxTtl
    /\ llm_now = 0
    /\ llm_cache = {}
    /\ llm_pc = "idle"
    /\ llm_messages = 0
    /\ llm_use_fallback = FALSE
    /\ llm_answers = << >>
    /\ llm_result = None
    /\ llm_invocations = << >>
    /\ llm_produced = {}
    /\ llm_produced_before = None
    /\ llm_checked_at = 0
    /\ llm_hit_age = None

llm_config == << llm_primary, llm_fallback, llm_enable_cache, llm_ttl >>

\* Time passes.
Tick ==
    /\ llm_pc # "unused"
    /\ llm_now < MaxClock
    /\ llm_now' = llm_now + 1
    /\ UNCHANGED << beyond_llm, llm_config, llm_cache, llm_pc, llm_messages,
                    llm_use_fallback, llm_answers, llm_result, llm_invocations,
                    llm_produced, llm_produced_before, llm_checked_at, llm_hit_age >>

\* generate is called (lines 223-236): the cache is looked up under the
\* primary backend's model; a hit is returned with cached=True.
StartGenerate ==
    /\ llm_pc \in {"idle", "done"}
    /\ \E messages \in MessageLists, use_fallback \in BOOLEAN :
        LET got == CacheGet(llm_cache, MakeKey(messages, DefaultModel(llm_primary)),
                            llm_now, llm_ttl)
            hit == llm_enable_cache /\ got.value # None /\ Truthy(got.value[1])
        IN  /\ llm_messages' = messages
            /\ llm_use_fallback' = use_fallback
            /\ llm_cache' = IF llm_enable_cache THEN got.cache ELSE llm_cache
            /\ llm_produced_before' =
                    IF \E h \in llm_produced : h.messages = messages
                    THEN Some((CHOOSE h \in llm_produced : h.messages = messages).time)
                    ELSE None
            /\ IF hit
               THEN /\ llm_result' = Some(Response(got.value[1], DefaultModel(llm_primary),
                                                   llm_primary, TRUE))
                    /\ llm_hit_age' = got.age
                    /\ llm_pc' = "done"
               ELSE /\ llm_result' = None
                    /\ llm_hit_age' = None
                    /\ llm_pc' = "primary"
    /\ llm_checked_at' = llm_now
    /\ llm_answers' = << >>
    /\ llm_invocations' = << >>
    /\ UNCHANGED << beyond_llm, llm_config, llm_now, llm_produced >>

\* What a provider fails a request with.
ProviderErrors ==
    {"rate_limit", "authentication", "model_not_found", "api_error", "unexpected"}

\* The except clauses of OpenAIBackend.generate and AnthropicBackend.generate:
\* the exception that leaves the method for a failure of the provider.
Converted(provider_error) ==
    CASE provider_error = "rate_limit" -> "RateLimitError"
      [] provider_error = "authentication" -> "AuthenticationError"
      [] provider_error = "model_not_found" -> "ModelNotFoundError"
      [] OTHER -> "LLMError"

\* The class given to retry_if_exception_type: the provider library's
\* RateLimitError (openai.RateLimitError, anthropic.RateLimitError).
ProviderRateLimitError == "ProviderRateLimitError"

\* retry=retry_if_exception_type(OpenAIRateLimitError): tenacity looks at the
\* exception that leaves generate.  llm_backends.base.RateLimitError derives
\* from LLMError, not from the provider library's class.
RetryIfExceptionType(exception) == exception = ProviderRateLimitError

\* One more attempt is made: the predicate holds and stop_after_attempt(3)
\* does not.
Reattempted(exception, attempts_made) ==
    RetryIfExceptionType(exception) /\ attempts_made < LLM_MAX_ATTEMPTS

\* The backend call that has just ended, for the history.
Invocation(backend, answers, outcome) ==
    [ backend |-> backend, answers |-> answers, outcome |-> outcome ]

\* Lines 239-252: the primary backend returns; the response is cached under
\* the primary's model and returned.
PrimaryAttemptReturns ==
    /\ llm_pc = "primary"
    /\ \E content \in Contents :
        /\ llm_result' = Some(Response(content, DefaultModel(llm_primary),
                                       llm_primary, FALSE))
        /\ llm_cache' = IF llm_enable_cache
                        THEN CacheSet(llm_cache,
                                      MakeKey(llm_messages, DefaultModel(llm_primary)),
                                      content, llm_now)
                        ELSE llm_cache
    /\ llm_invocations' = Append(llm_invocations,
            Invocation("primary", Append(llm_answers, "ok"), "returned"))
    /\ llm_produced' = Produced(llm_produced, llm_messages, llm_now)
    /\ llm_answers' = << >>
    /\ llm_pc' = "done"
    /\ UNCHANGED << beyond_llm, llm_config, llm_now, llm_messages, llm_use_fallback,
                    llm_produced_before, llm_checked_at, llm_hit_age >>

\* Mutation: the fallback is tried whatever the primary failed with.
FallbackTriedOnAnyError(exception, use_fallback, fallback) ==
    use_fallback /\ fallback # None

\* Lines 254-263: "except (RateLimitError, AuthenticationError): raise", then
\* "except LLMError: if use_fallback and self.fallback_backend".
FallbackTried(exception, use_fallback, fallback) ==
    /\ exception \notin {"RateLimitError", "AuthenticationError"}
    /\ use_fallback
    /\ fallback # None

\* An attempt of the primary backend fails: tenacity re-attempts, or the
\* exception reaches the factory (lines 254-288), which re-raises it or goes
\* on to the fallback.
PrimaryAttemptFails ==
    /\ llm_pc = "primary"
    /\ \E provider_error \in ProviderErrors :
        LET exception == Converted(provider_error)
            answers == Append(llm_answers, provider_error)
        IN  IF Reattempted(exception, Len(answers))
            THEN /\ llm_answers' = answers
                 /\ UNCHANGED << llm_invocations, llm_result, llm_pc >>
            ELSE /\ llm_answers' = << >>
                 /\ llm_invocations' = Append(llm_invocations,
                        Invocation("primary", answers, exception))
                 /\ IF FallbackTried(exception, llm_use_fallback, llm_fallback)
                    THEN /\ llm_pc' = "fallback"
                         /\ llm_result' = llm_result
                    ELSE /\ llm_pc' = "done"
                         /\ llm_result' = Some(RaisedError(exception, << llm_primary >>))
    /\ UNCHANGED << beyond_llm, llm_config, llm_now, llm_cache, llm_messages,
                    llm_use_fallback, llm_produced, llm_produced_before,
                    llm_checked_at, llm_hit_age >>

\* Lines 264-277: the fallback backend returns; the response is cached under
\* the fallback's model and returned.
FallbackAttemptReturns ==
    /\ llm_pc = "fallback"
    /\ \E content \in Contents :
        /\ llm_result' = Some(Response(content, DefaultModel(llm_fallback[1]),
                                       llm_fallback[1], FALSE))
        /\ llm_cache' = IF llm_enable_cache
                        THEN CacheSet(llm_cache,
                                      MakeKey(llm_messages, DefaultModel(llm_fallback[1])),
                                      content, llm_now)
                        ELSE llm_cache
    /\ llm_invocations' = Append(llm_invocations,
            Invocation("fallback", Append(llm_answers, "ok"), "returned"))
    /\ llm_produced' = Produced(llm_produced, llm_messages, llm_now)
    /\ llm_answers' = << >>
    /\ llm_pc' = "done"
    /\ UNCHANGED << beyond_llm, llm_config, llm_now, llm_messages, llm_use_fallback,
                    llm_produced_before, llm_checked_at, llm_hit_age >>

\* An attempt of the fallback backend fails: tenacity re-attempts, or the
\* factory raises an LLMError that names both backends and both errors
\* (lines 279-285).
FallbackAttemptFails ==
    /\ llm_pc = "fallback"
    /\ \E provider_error \in ProviderErrors :
        LET exception == Converted(provider_error)
            answers == Append(llm_answers, provider_error)
        IN  IF Reattempted(exception, Len(answers))
            THEN /\ llm_answers' = answers
                 /\ UNCHANGED << llm_invocations, llm_result, llm_pc >>
            ELSE /\ llm_answers' = << >>
                 /\ llm_invocations' = Append(llm_invocations,
                        Invocation("fallback", answers, exception))
                 /\ llm_pc' = "done"
                 /\ llm_result' = Some(RaisedError("LLMError",
                        << llm_primary, llm_fallback[1],
                           llm_invocations[1].outcome, exception >>))
    /\ UNCHANGED << beyond_llm, llm_config, llm_now, llm_cache, llm_messages,
                    llm_use_fallback, llm_produced, llm_produced_before,
                    llm_checked_at, llm_hit_age >>

NextLLM ==
    \/ Tick
    \/ StartGenerate
    \/ PrimaryAttemptReturns
    \/ PrimaryAttemptFails
    \/ FallbackAttemptReturns
    \/ FallbackAttemptFails

SpecLLM == InitLLM /\ [][NextLLM]_vars

(***************************************************************************)
(* Properties                                                              *)
(***************************************************************************)
Range(seq) == { seq[x] : x \in DOMAIN seq }

WithStatus(status) == { k \in DOMAIN operations : operations[k].status = status }

RealRunDone == pc = "done" /\ ~dry_run

\* Every apply_tags call so far behaved as the repository's scanners do: it
\* returned True or raised.
NoFalseReturn == \A x \in DOMAIN apply_log : apply_log[x].outcome # "False"

\* C1: after a real run in which rollback fired, every resource whose
\* operation is rolled-back has exactly the tag set it had before the run
\* (checked on the runs whose apply_tags calls all returned True or raised).
C1_RolledBackRestored ==
    (RealRunDone /\ enable_rollback /\ failed > 0 /\ NoFalseReturn) =>
        \A k \in WithStatus(ROLLED_BACK) : provider[k] = resources[k].tags

\* C2: after a real run, every resource whose operation is failed or still
\* pending has the tag set it had before the run.
C2_FailedOrPendingUnchanged ==
    RealRunDone =>
        \A k \in WithStatus(FAILED) \cup WithStatus(PENDING) :
            provider[k] = resources[k].tags

\* C3: when rollback fired the result reports successful = 0, however many
\* operations completed or were rolled back; when it did not fire, successful
\* is the number of operations that completed.
C3_SuccessfulForcedToZero ==
    RealRunDone =>
        /\ rollback_started <=> (enable_rollback /\ failed > 0)
        /\ rollback_started => result.successful = 0
        /\ ~rollback_started =>
                result.successful = Cardinality(WithStatus(COMPLETED))

C3_Witness ==
    /\ RealRunDone
    /\ rollback_started
    /\ successful >= 2
    /\ rolled_back = 1
    /\ result.successful = 0

\* C4: a dry run obtains no scanner, calls apply_tags never, leaves the
\* provider alone, never rolls back, and returns every operation completed
\* with total = number of resources, successful = total, failed = 0,
\* rolled_back = 0, dry_run = true.
C4_DryRunNoSideEffects ==
    dry_run =>
        /\ scanners = {}
        /\ apply_log = << >>
        /\ ~rollback_started
        /\ provider = [r \in DOMAIN resources |-> resources[r].tags]
        /\ pc = "done" =>
            /\ Len(operations) = Len(resources)
            /\ \A k \in DOMAIN operations : operations[k].status = COMPLETED
            /\ result = [ total_operations |-> Len(resources),
                          successful |-> Len(resources),
                          failed |-> 0,
                          rolled_back |-> 0,
                          dry_run |-> TRUE ]

C4_Witness ==
    /\ pc = "done"
    /\ dry_run
    /\ Len(resources) = MaxResources
    /\ enable_rollback
    /\ result.successful = Len(resources)

\* The edges of the TagOperation state machine.
Edge(from, to) ==
    << from, to >> \in { << PENDING, IN_PROGRESS >>, << IN_PROGRESS, COMPLETED >>,
                         << IN_PROGRESS, FAILED >>, << COMPLETED, ROLLED_BACK >> }

\* C5 (as stated): every status change, in a real run and in a dry run,
\* follows pending -> in-progress -> {completed, failed}, completed ->
\* rolled-back; failed and rolled-back are never left.
C5_StateMachine ==
    [][ \A k \in (DOMAIN operations) \cap (DOMAIN operations') :
            operations'[k].status # operations[k].status =>
                Edge(operations[k].status, operations'[k].status) ]_vars

\* C5 (amended): in a real run every status change follows an edge of the
\* state machine; in a dry run the only change is pending -> completed.
C5_StateMachineRealRun ==
    [][ /\ \A k \in (DOMAIN operations') \ (DOMAIN operations) :
                operations'[k].status = PENDING
        /\ \A k \in (DOMAIN operations) \cap (DOMAIN operations') :
            operations'[k].status # operations[k].status =>
                IF dry_run
                THEN operations[k].status = PENDING /\ operations'[k].status = COMPLETED
                ELSE Edge(operations[k].status, operations'[k].status) ]_vars

C5_Witness ==
    /\ RealRunDone
    /\ WithStatus(ROLLED_BACK) # {}
    /\ WithStatus(FAILED) # {}
    /\ WithStatus(COMPLETED) # {}

RollbackEntries == { x \in DOMAIN apply_log : apply_log[x].phase = "rollback" }

C6_State ==
    /\ rollback_started =>
            /\ ~dry_run /\ enable_rollback /\ failed > 0
            /\ pc \in {"rollback", "build_result", "done"}
            /\ WithStatus(IN_PROGRESS) = {}
    /\ (pc \in {"build_result", "done"} /\ ~dry_run) =>
            (rollback_started <=> (enable_rollback /\ failed > 0))
    /\ (pc = "rollback" /\ rb_index = 1) =>
            Range(completed_ops) = WithStatus(COMPLETED)
    /\ \A x \in RollbackEntries :
            /\ rollback_started
            /\ apply_log[x].op \in Range(completed_ops)
            /\ apply_log[x].tags = resources[apply_log[x].op].tags
            /\ apply_log[x].tags = operations[apply_log[x].op].original_tags

C6_Step ==
    /\ rollback_started => completed_ops' = completed_ops
    /\ ~rollback_started => Len(apply_log') = Len(apply_log) \/ pc = "op_body"
    /\ rollback_started =>
         \A k \in DOMAIN operations :
            (k \notin Range(completed_ops) \/ operations[k].status # COMPLETED) =>
                /\ operations'[k] = operations[k]
                /\ provider'[k] = provider[k]
                /\ Len(apply_log') > Len(apply_log) =>
                        apply_log'[Len(apply_log')].op # k

\* C6: rollback runs iff rollback is enabled and an operation failed; it
\* starts after the batch loop; it re-applies tags only for the operations
\* completed at that moment, each with the original tag set captured at the
\* start of the call; failed and pending operations are never touched.
C6_RollbackTrigger == [] C6_State /\ [][C6_Step]_vars

C6_Witness ==
    /\ RealRunDone
    /\ RollbackEntries # {}
    /\ WithStatus(FAILED) # {}
    /\ WithStatus(PENDING) # {}

\* The message of the exception a kind's processing raises.
ExceptionMessage(resource_type) ==
    CASE resource_type \in {"EC2", "Lambda"} -> ClientErrorMsg
      [] resource_type \in {"EBS", "S3", "RDS"} -> AWSErrorMsg
      [] OTHER -> ValueErrorMsg

ApplyEntries == { x \in DOMAIN apply_log : apply_log[x].phase = "apply" }

C7_State ==
    (~dry_run /\ ~fail_fast /\ pc \in {"rollback_check", "rollback", "build_result", "done"}) =>
        /\ WithStatus(PENDING) \cup WithStatus(IN_PROGRESS) = {}
        /\ { apply_log[x].op : x \in ApplyEntries } =
                { k \in DOMAIN operations : ScannerSupported(operations[k].resource_type) }
        /\ failed = Cardinality(WithStatus(FAILED))

C7_Step ==
    ~fail_fast =>
        \A k \in (DOMAIN operations) \cap (DOMAIN operations') :
            ( /\ operations[k].status # FAILED
              /\ operations'[k].status = FAILED
              /\ operations'[k].error # ReturnedFalseMsg ) =>
                /\ operations[k].status = IN_PROGRESS
                /\ operations'[k].error = ExceptionMessage(operations[k].resource_type)
                /\ failed' = failed + 1
                /\ successful' = successful
                /\ \A j \in DOMAIN operations : j # k => operations'[j] = operations[j]
                /\ pc' = "op_loop"

\* C7: without fail_fast an exception while processing one operation (its
\* scanner cannot be obtained, or apply_tags raises) marks that operation
\* alone failed with the exception's message and adds one to failed; every
\* other operation of the list, in this batch and in later ones, is still
\* attempted, and the run goes on.
C7_ExceptionIsolated == [] C7_State /\ [][C7_Step]_vars

C7_Witness ==
    /\ RealRunDone
    /\ ~fail_fast
    /\ batch_size = 2
    /\ Len(operations) = 3
    /\ operations[1].status = FAILED
    /\ operations[1].error = ClientErrorMsg
    /\ operations[2].status = COMPLETED
    /\ operations[3].status = COMPLETED

\* C8: with fail_fast no operation positioned after the first failed one is
\* attempted: all of them stay pending, whether the failure was an exception
\* or apply_tags returning False.
C8_FailFastStopsAtFirstFailure ==
    (RealRunDone /\ fail_fast) =>
        \A j, k \in DOMAIN operations :
            (j < k /\ operations[j].status = FAILED) =>
                /\ operations[k].status = PENDING
                /\ \A x \in DOMAIN apply_log : apply_log[x].op # k

AtRollbackBegin == pc = "rollback" /\ rb_index = 1

\* C9 (as stated): when rollback begins every operation is completed or
\* failed.
C9_AllTerminalAtRollback ==
    AtRollbackBegin =>
        \A k \in DOMAIN operations : operations[k].status \in {COMPLETED, FAILED}

\* C9 (amended): when rollback begins no operation is in-progress; every
\* operation is completed or failed, except that in a fail_fast run the
\* operations after the failure that stopped the run are still pending.
C9_NoneInProgressAtRollback ==
    AtRollbackBegin =>
        \A k \in DOMAIN operations :
            /\ operations[k].status \in {COMPLETED, FAILED, PENDING}
            /\ operations[k].status = PENDING =>
                    /\ fail_fast
                    /\ \E j \in 1..(k - 1) : operations[j].status = FAILED
                    /\ \A j \in k..Len(operations) : operations[j].status = PENDING

C9_Witness ==
    /\ AtRollbackBegin
    /\ fail_fast
    /\ WithStatus(PENDING) # {}
    /\ WithStatus(COMPLETED) # {}

AppliedOperations ==
    { apply_log[x].op : x \in { y \in ApplyEntries : apply_log[y].outcome = "True" } }

\* C11: the whole call is the rollback unit.  When rollback fires, the
\* operations handed to it are all the operations completed anywhere in the
\* call (in every batch, also when fail_fast stopped the run early), and when
\* the call returns each of them has been processed by the rollback loop:
\* rolled back, or its re-application raised.
C11_WholeCallIsRollbackUnit ==
    /\ AtRollbackBegin =>
            /\ Range(completed_ops) = WithStatus(COMPLETED)
            /\ NoFalseReturn => Range(completed_ops) = AppliedOperations
    /\ (pc \in {"build_result", "done"} /\ rollback_started) =>
            /\ rb_index = Len(completed_ops) + 1
            /\ WithStatus(COMPLETED) \subseteq Range(completed_ops)
            /\ Cardinality(WithStatus(ROLLED_BACK)) + rollback_errors
                    = Len(completed_ops)
            /\ NoFalseReturn => Range(completed_ops) = AppliedOperations

\* fail_fast stops the run in the second batch; the operation completed in
\* the first batch is rolled back.
C11_Witness ==
    /\ RealRunDone /\ fail_fast /\ enable_rollback
    /\ batch_size = 1
    /\ Len(operations) = 3
    /\ operations[1].status = ROLLED_BACK
    /\ operations[2].status = FAILED
    /\ operations[3].status = PENDING
    /\ \E x \in RollbackEntries : apply_log[x].op = 1

\* C12: idempotence.  After a call that succeeded for every resource, the
\* same call made again with no remote fault fails for no resource, reports
\* successful = total = number of resources and failed = 0, and leaves every
\* resource's provider-side tag set as the first call left it.
C12_Idempotent ==
    call = 2 =>
        /\ failed = 0
        /\ provider = provider_after_first
        /\ pc = "done" =>
            /\ result.total_operations = Len(resources)
            /\ result.successful = result.total_operations
            /\ result.failed = 0
            /\ result.rolled_back = 0

\* A real second call over tagged databases and instances alike: some
\* resource carries a tag of its own next to the applied ones.
C12_Witness ==
    /\ call = 2 /\ pc = "done" /\ ~dry_run
    /\ Len(resources) >= 2
    /\ Len(apply_log) = Len(resources)
    /\ \E r \in DOMAIN resources :
            /\ resources[r].tags # EmptyTags
            /\ DOMAIN provider[r] = Keys
    /\ result.successful = Len(resources)

(***************************************************************************)
(* Properties of scan_all_regions                                          *)
(***************************************************************************)
MultiRegionDone == mr_pc = "done"

\* The listed positions whose scan fails: the kind has no scanner, or the
\* region's scan raises.
FailingPositions ==
    { i \in DOMAIN target_regions :
        ~ScannerClassKnown(scan_resource_type) \/ scan_outcomes[i].raises }

SucceedingPositions == (DOMAIN target_regions) \ FailingPositions

\* The RegionScanResult is the one the position's own scan outcome calls for.
OwnOutcome(region_result, i) ==
    /\ region_result.region = target_regions[i]
    /\ IF i \in FailingPositions
       THEN /\ region_result.success = FALSE
            /\ region_result.scan_result = None
            /\ region_result.error # None
            /\ Len(region_result.error[1]) > 0
       ELSE /\ region_result.success = TRUE
            /\ region_result.error = None
            /\ region_result.scan_result =
                    Some(RegionScanned(target_regions[i], scan_outcomes[i].tagged,
                                       scan_outcomes[i].untagged))

\* C13: a region whose scan fails does not abort the call and does not keep
\* any other region from being scanned: every future that is done holds the
\* result of its own region (failed: success = false, no scan result, a
\* non-empty error string), and the returned result has such an entry for
\* every listed region.
C13_RegionFailureIsolated ==
    /\ \A i \in DOMAIN futures : futures[i] # None => OwnOutcome(futures[i][1], i)
    /\ MultiRegionDone =>
            /\ \A i \in DOMAIN task_state : task_state[i] = "finished"
            /\ multi_region_result # None
            /\ Len(multi_region_result[1].region_results) = Len(target_regions)
            /\ \A i \in DOMAIN target_regions :
                    OwnOutcome(multi_region_result[1].region_results[i], i)

\* Three regions; the second fails, and fails before the first returns.
C13_Witness ==
    /\ MultiRegionDone
    /\ Len(target_regions) = 3
    /\ FailingPositions = {2}
    /\ completion_order[1] = 2
    /\ scan_outcomes[1].untagged > 0
    /\ multi_region_result[1].region_results[2].success = FALSE
    /\ multi_region_result[1].region_results[3].success = TRUE

RECURSIVE SumTo(_, _)
SumTo(f, n) == IF n = 0 THEN 0 ELSE SumTo(f, n - 1) + f[n]

\* C14: the totals of a MultiRegionScanResult are the sums over exactly its
\* entries with success = true, a failed entry adds 0 to each, and
\* get_all_untagged_resources returns the untagged resources of the
\* successful entries and nothing else.
C14_TotalsOverSuccessfulOnly ==
    MultiRegionDone =>
        LET res == multi_region_result[1]
            rr == res.region_results
            n == Len(rr)
            all_untagged == GetAllUntaggedResources(rr)
        IN  /\ res.total_resources =
                    SumTo([i \in 1..n |-> IF rr[i].success
                            THEN rr[i].scan_result[1].total_resources ELSE 0], n)
            /\ res.total_tagged =
                    SumTo([i \in 1..n |-> IF rr[i].success
                            THEN Len(rr[i].scan_result[1].tagged_resources) ELSE 0], n)
            /\ res.total_untagged =
                    SumTo([i \in 1..n |-> IF rr[i].success
                            THEN Len(rr[i].scan_result[1].untagged_resources) ELSE 0], n)
            /\ res.total_resources = res.total_tagged + res.total_untagged
            /\ Len(all_untagged) = res.total_untagged
            /\ \A x \in DOMAIN all_untagged :
                    \E i \in 1..n :
                        /\ rr[i].success
                        /\ all_untagged[x] \in Range(rr[i].scan_result[1].untagged_resources)
            /\ \A i \in 1..n : rr[i].success =>
                    Range(rr[i].scan_result[1].untagged_resources) \subseteq Range(all_untagged)

C14_Witness ==
    /\ MultiRegionDone
    /\ Cardinality(SucceedingPositions) = 2
    /\ Cardinality(FailingPositions) = 1
    /\ multi_region_result[1].total_untagged = 2
    /\ Len(GetAllUntaggedResources(multi_region_result[1].region_results)) = 2

\* The results the listed regions call for, in list order.
ResultsByPosition ==
    [ i \in DOMAIN target_regions |->
        ScanRegion(target_regions[i], scan_resource_type, scan_outcomes[i]) ]

\* C15: the aggregate does not depend on the order in which the scans
\* complete: the totals, the successful and failed counts and the per-region
\* breakdown of the returned result are those determined by the region list
\* and the regions' outcomes alone.
C15_AggregateOrderIndependent ==
    MultiRegionDone =>
        LET res == multi_region_result[1]
            expected == AggregateOf(scan_resource_type, target_regions, ResultsByPosition)
        IN  /\ res.total_resources = expected.total_resources
            /\ res.total_tagged = expected.total_tagged
            /\ res.total_untagged = expected.total_untagged
            /\ res.successful_scans = expected.successful_scans
            /\ res.failed_scans = expected.failed_scans
            /\ res.tagging_compliance_rate = expected.tagging_compliance_rate
            /\ GetRegionSummary(res.region_results) = GetRegionSummary(ResultsByPosition)

\* A region listed twice: its second scan succeeds and completes before its
\* first scan, which fails.
C15_Witness ==
    /\ MultiRegionDone
    /\ Len(target_regions) >= 2
    /\ target_regions[1] = target_regions[2]
    /\ scan_outcomes[1].raises /\ ~scan_outcomes[2].raises
    /\ scan_outcomes[2].tagged > 0
    /\ completion_order[1] = 2
    /\ "error" \notin DOMAIN GetRegionSummary(multi_region_result[1].region_results)[target_regions[1]]

AllScanned ==
    /\ submitted = Len(target_regions)
    /\ \A i \in DOMAIN task_state : task_state[i] = "finished"

\* A scan starts only on a free worker, and a region beyond the first
\* max_workers of the list only after a scan has finished.
C16_Step ==
    \A i \in DOMAIN task_state' :
        (task_state'[i] = "running" /\ (i \notin DOMAIN task_state \/ task_state[i] # "running")) =>
            /\ Cardinality(Running) < max_workers
            /\ i > max_workers => \E j \in 1..(i - 1) : task_state[j] = "finished"

\* C16: never more than max_workers region scans are in flight, a region
\* beyond the bound starts only when a running scan has finished, and every
\* listed region is eventually scanned.
C16_BoundedWorkers ==
    /\ [](Cardinality(Running) <= max_workers)
    /\ [][C16_Step]_vars
    /\ <>AllScanned

\* Three regions, two workers: the third scan runs next to one of the first
\* two, the other having finished.
C16_Witness ==
    /\ Len(target_regions) = 3
    /\ max_workers = 2
    /\ task_state = << "finished", "running", "running" >>

\* The counts of C17 and the entry of each failed region.
C17_Counts(res) ==
    /\ res.successful_scans = Cardinality(SucceedingPositions)
    /\ res.failed_scans = Cardinality(FailingPositions)
    /\ res.successful_scans + res.failed_scans = Len(target_regions)

\* C17 (as stated): successful_scans and failed_scans count the regions that
\* succeeded and failed and add up to the regions requested, and the
\* breakdown entry of each failed region has an error field and no numeric
\* total.
C17_FailedRegionNoTotal ==
    MultiRegionDone =>
        LET res == multi_region_result[1]
            summary == GetRegionSummary(res.region_results)
        IN  /\ C17_Counts(res)
            /\ \A i \in FailingPositions :
                    /\ "error" \in DOMAIN summary[target_regions[i]]
                    /\ "total" \notin DOMAIN summary[target_regions[i]]

NoRegionListedTwice ==
    \A i, j \in DOMAIN target_regions : target_regions[i] = target_regions[j] => i = j

\* C17 (amended): the counts as stated; when no region is listed twice, the
\* breakdown entry of each failed region consists of total = 0 and the error
\* string, and has no untagged, tagged or compliance_rate field.
C17_FailedRegionTotalZero ==
    MultiRegionDone =>
        LET res == multi_region_result[1]
            summary == GetRegionSummary(res.region_results)
        IN  /\ C17_Counts(res)
            /\ NoRegionListedTwice =>
                \A i \in FailingPositions :
                    /\ DOMAIN summary[target_regions[i]] = {"total", "error"}
                    /\ summary[target_regions[i]].total = 0
                    /\ summary[target_regions[i]].error # None
                    /\ summary[target_regions[i]].error =
                            res.region_results[i].error

\* Scenario B: regions a, b, c, b fails with a permission error.
C17_Witness ==
    /\ MultiRegionDone
    /\ Len(target_regions) = 3 /\ NoRegionListedTwice
    /\ FailingPositions = {2}
    /\ scan_outcomes[2].message = PermissionErrorMsg
    /\ multi_region_result[1].successful_scans = 2
    /\ multi_region_result[1].failed_scans = 1
    /\ GetRegionSummary(multi_region_result[1].region_results)[target_regions[2]].total = 0

(***************************************************************************)
(* Properties of the scanners' scan and apply_tags                         *)
(***************************************************************************)
\* C18: a remote call failing with an authentication, permission or
\* not-found error ends the call at that attempt: the exception is raised,
\* no sleep and no further attempt follows.
C18_NoRetryOfPermanentErrors ==
    \A k \in DOMAIN attempt_failures :
        attempt_failures[k].category \in {"authentication", "permission", "not_found"} =>
            /\ retry_pc = "raised"
            /\ Len(attempt_failures) = k
            /\ Len(waits) < k

AllFailures(Test(_)) == \A k \in DOMAIN attempt_failures : Test(attempt_failures[k])

IsTransient(remote_error) == remote_error.category = "transient"

\* The call ended with the failure of attempt k.
EndedAt(k) == retry_pc = "raised" /\ Len(attempt_failures) = k

IsRetried(remote_error) ==
    scanner_kind \in {"S3", "RDS", "EBS"} \/ remote_error.class = "ClientError"

C20_ScanResultPartition ==
    (retry_pc = "returned" /\ method = "scan") =>
        LET r == returned[1]
        IN  /\ Len(r.tagged_resources) + Len(r.untagged_resources) = r.total_resources
            /\ r.total_resources = Len(r.resources)
            /\ Range(r.tagged_resources) \cup Range(r.untagged_resources) = Range(r.resources)
            /\ Range(r.tagged_resources) \cap Range(r.untagged_resources) = {}
            /\ \A x \in Range(r.resources) :
                    /\ x \in Range(r.tagged_resources) <=> x.tags # EmptyTags
                    /\ x \in Range(r.untagged_resources) <=> x.tags = EmptyTags

\* A bucket scan over two tagged buckets: the tags of one could not be read.
C20_Witness ==
    /\ retry_pc = "returned" /\ method = "scan"
    /\ scanner_kind = "S3"
    /\ Len(listing) = 2
    /\ listing[1] # EmptyTags /\ listing[2] # EmptyTags
    /\ Len(returned[1].tagged_resources) = 1
    /\ Len(returned[1].untagged_resources) = 1

\* rate is 100 x tagged_count / total in whole percent, and 0 for total = 0.
IsRateOf(rate, tagged_count, total) ==
    IF total = 0 THEN rate = 0
    ELSE /\ rate * total <= 100 * tagged_count
         /\ 100 * tagged_count < (rate + 1) * total

\* C21: the compliance rate of a ScanResult is 0 when total is 0 and
\* otherwise 100 x tagged / total; the rate of a MultiRegionScanResult
\* follows the same rule on the totals summed over the successful regions
\* only, and is 0 when no successful region has any resource.
C21_ComplianceRate ==
    /\ \A i \in DOMAIN futures :
            (futures[i] # None /\ futures[i][1].scan_result # None) =>
                LET sr == futures[i][1].scan_result[1]
                IN  IsRateOf(TaggingComplianceRate(sr),
                             scan_outcomes[i].tagged,
                             scan_outcomes[i].tagged + scan_outcomes[i].untagged)
    /\ MultiRegionDone =>
            LET n == Len(target_regions)
                tagged_sum == SumTo([i \in 1..n |-> IF i \in SucceedingPositions
                                        THEN scan_outcomes[i].tagged ELSE 0], n)
                total_sum == SumTo([i \in 1..n |-> IF i \in SucceedingPositions
                                        THEN scan_outcomes[i].tagged + scan_outcomes[i].untagged
                                        ELSE 0], n)
            IN  IsRateOf(multi_region_result[1].tagging_compliance_rate,
                         tagged_sum, total_sum)

\* One region fails, one holds a tagged resource, one an untagged one.
C21_Witness ==
    /\ MultiRegionDone
    /\ Cardinality(FailingPositions) = 1
    /\ multi_region_result[1].total_tagged = 1
    /\ multi_region_result[1].total_resources = 2
    /\ multi_region_result[1].tagging_compliance_rate = 50

\* Every listed region fails or is empty: the rate is 0.
C21_WitnessEmpty ==
    /\ MultiRegionDone
    /\ FailingPositions # {}
    /\ SucceedingPositions # {}
    /\ multi_region_result[1].total_resources = 0
    /\ multi_region_result[1].tagging_compliance_rate = 0

(***************************************************************************)
(* Properties of generate_multi_region_report                              *)
(***************************************************************************)
\* The position of the result a region's breakdown entry is made from: the
\* last result of the list that names the region.
LastResultOf(results, name) ==
    CHOOSE k \in DOMAIN results :
        /\ results[k].region = name
        /\ \A j \in DOMAIN results : results[j].region = name => j <= k

\* The regions whose scan succeeded.
SucceededRegions(results) ==
    { results[k].region : k \in { j \in DOMAIN results :
            j = LastResultOf(results, results[j].region) /\ results[j].success } }

UntaggedCountOf(results, name) ==
    Len(results[LastResultOf(results, name)].scan_result[1].untagged_resources)

\* C22: the top-offenders list of the report contains only regions whose
\* scan succeeded, each once and with its untagged count, is ordered by
\* untagged count in non-increasing order, holds at most 5 entries (5 when
\* more than 5 regions succeeded), and no omitted successful region has a
\* strictly larger untagged count than a listed one.
C22_TopOffenders ==
    report_pc = "done" =>
        LET top == report[1].top_offending_regions
            rr == report_input[1].region_results
            ok == SucceededRegions(rr)
            listed == { top[x].region : x \in DOMAIN top }
        IN  /\ listed \subseteq ok
            /\ \A x, y \in DOMAIN top : x # y => top[x].region # top[y].region
            /\ \A x \in DOMAIN top :
                    top[x].untagged_count = UntaggedCountOf(rr, top[x].region)
            /\ \A x, y \in DOMAIN top :
                    x < y => top[x].untagged_count >= top[y].untagged_count
            /\ Len(top) <= 5
            /\ Len(top) = IF Cardinality(ok) > 5 THEN 5 ELSE Cardinality(ok)
            /\ \A name \in ok \ listed : \A x \in DOMAIN top :
                    UntaggedCountOf(rr, name) <= top[x].untagged_count

\* Six regions succeeded; the first of the list has no untagged resource,
\* the last has one: five are listed, regions with and without untagged
\* resources among them.
C22_Witness ==
    /\ report_pc = "done"
    /\ Cardinality(SucceededRegions(report_input[1].region_results)) = 6
    /\ UntaggedCountOf(report_input[1].region_results, AllRegions[1]) = 0
    /\ UntaggedCountOf(report_input[1].region_results, AllRegions[6]) = 1
    /\ Len(report[1].top_offending_regions) = 5
    /\ report[1].top_offending_regions[1].untagged_count = 1
    /\ report[1].top_offending_regions[5].untagged_count = 0

(***************************************************************************)
(* Properties of the two entry points                                      *)
(***************************************************************************)
BothDone == async_pc = "done" /\ mr_pc = "done"

\* C23: scan_all_regions and scan_all_regions_async are equivalent in
\* aggregation: for the same region list and the same per-region outcomes
\* they return the same successful and failed counts, the same totals and
\* compliance rate, and region results for the same regions with the same
\* success flags.
C23_EntryPointsEquivalent ==
    BothDone =>
        LET a == async_result[1]
            s == multi_region_result[1]
        IN  /\ a.successful_scans = s.successful_scans
            /\ a.failed_scans = s.failed_scans
            /\ a.total_resources = s.total_resources
            /\ a.total_tagged = s.total_tagged
            /\ a.total_untagged = s.total_untagged
            /\ a.tagging_compliance_rate = s.tagging_compliance_rate
            /\ a.regions_scanned = s.regions_scanned
            /\ Len(a.region_results) = Len(s.region_results)
            /\ \A k \in DOMAIN a.region_results :
                    /\ a.region_results[k].region = s.region_results[k].region
                    /\ a.region_results[k].success = s.region_results[k].success

\* Three regions, one failing, one with a tagged and one with an untagged
\* resource; in the thread pool the second scan finished first.
C23_Witness ==
    /\ BothDone
    /\ Len(target_regions) = 3
    /\ Cardinality(FailingPositions) = 1
    /\ completion_order[1] = 2
    /\ async_result[1].total_tagged = 1
    /\ async_result[1].total_untagged = 1
    /\ async_result[1].failed_scans = 1

(***************************************************************************)
(* Properties of scan: listing and enumeration                             *)
(***************************************************************************)
ScanReturned == retry_pc = "returned" /\ method = "scan"

\* The provider's listing takes more than one page.
SeveralPages == Len(listing) > page_size

\* C24: for every resource kind, scan follows the provider's paginated
\* listing until it is exhausted: the returned ScanResult contains every
\* resource of every page exactly once (where the inspection of no
\* resource failed).
C24_ScanFollowsEveryPage ==
    (ScanReturned /\ \A k \in DOMAIN item_faults : item_faults[k] = "none") =>
        LET r == returned[1].resources
        IN  /\ Len(r) = Len(listing)
            /\ \A k \in DOMAIN listing :
                    Cardinality({ x \in DOMAIN r : r[x].resource_id = k }) = 1

(***************************************************************************)
(* Properties of apply_tags on the kinds whose API replaces the tag set    *)
(***************************************************************************)
ApplyReturned(kind) ==
    retry_pc = "returned" /\ method = "apply_tags" /\ scanner_kind = kind

\* C25: after S3Scanner.apply_tags(bucket, tags) returns true the bucket's
\* tag set is its pre-call tag set overridden by the requested tags: every
\* pre-existing key not named in the request is still there with its old
\* value, whatever the read of the existing tags met with.
C25_BucketTagsMerged ==
    ApplyReturned("S3") => remote_tags = MergeTags(tags_before, requested_tags)

\* C26: if RDSScanner.apply_tags returns true, after whatever pattern of
\* failures of its remote steps over its up to 3 attempts, the instance's
\* tag set is the one it had before the call overridden by the requested
\* tags.
C26_DbTagsPreservedAcrossRetries ==
    ApplyReturned("RDS") => remote_tags = MergeTags(tags_before, requested_tags)

(***************************************************************************)
(* Properties of the bulk engine: rollback without original tags, counters *)
(***************************************************************************)
\* The operations that were rolled back although no original tags had been
\* captured for them.
RolledBackWithoutOriginal ==
    { k \in WithStatus(ROLLED_BACK) : operations[k].original_tags = EmptyTags }

C27_State ==
    \A k \in RolledBackWithoutOriginal :
        /\ \A x \in RollbackEntries : apply_log[x].op # k
        /\ provider[k] = operations[k].tags_to_apply

C27_Step ==
    \A k \in (DOMAIN operations) \cap (DOMAIN operations') :
        ( /\ operations[k].status = COMPLETED
          /\ operations'[k].status = ROLLED_BACK
          /\ operations[k].original_tags = EmptyTags ) =>
            /\ apply_log' = apply_log
            /\ provider' = provider
            /\ rolled_back' = rolled_back + 1
            /\ rollback_errors' = rollback_errors

\* C27: when rollback processes a completed operation whose captured
\* original tag set is empty it makes no remote call for that resource, sets
\* the operation to rolled-back and counts it in rolled_back; the tags the
\* run added to the resource stay in place.
C27_RollbackWithoutOriginalTags == [] C27_State /\ [][C27_Step]_vars

\* An untagged resource was tagged, another operation failed, and the
\* rollback counted the first as rolled back with the new tags still on it.
C27_Witness ==
    /\ RealRunDone
    /\ rollback_started
    /\ RolledBackWithoutOriginal # {}
    /\ \E k \in RolledBackWithoutOriginal :
            /\ resources[k].tags = EmptyTags
            /\ provider[k] = tags
    /\ result.rolled_back >= 1

\* The listed resources whose inspection was answered with a not-found
\* error, at the first call made for the resource or at its tags call.
NotFoundItems ==
    { k \in DOMAIN item_faults : item_faults[k] \in {"not_found", "tags_not_found"} }

ReturnedIds == { returned[1].resources[x].resource_id : x \in DOMAIN returned[1].resources }

\* C28: while a scan enumerates a collection, a not-found error for one
\* item skips only that item: the scan returns a ScanResult that omits the
\* missing item and contains every item whose inspection met no error, with
\* total equal to the number of items returned.
C28_NotFoundItemSkipped ==
    ScanReturned =>
        /\ ReturnedIds \cap NotFoundItems = {}
        /\ { k \in DOMAIN item_faults : item_faults[k] = "none" } \subseteq ReturnedIds
        /\ returned[1].total_resources = Len(returned[1].resources)

(***************************************************************************)
(* Properties of the region scans' scanner objects                         *)
(***************************************************************************)
\* No scanner object is held by two tasks of the list.
NoSharedScanner(objects) ==
    \A i, j \in DOMAIN objects :
        (i # j /\ objects[i] # NoScanner) => objects[i] # objects[j]

\* A step that moves one task leaves every other task's state, future and
\* scanner as they were.
OwnStateOnly(states, results, objects, states_next, results_next, objects_next) ==
    \A i \in DOMAIN states :
        states_next[i] # states[i] =>
            \A j \in DOMAIN states :
                j # i => /\ states_next[j] = states[j]
                         /\ results_next[j] = results[j]
                         /\ objects_next[j] = objects[j]

C29_State ==
    /\ NoSharedScanner(scanner_of)
    /\ NoSharedScanner(async_scanner_of)
    /\ ScannerClassKnown(scan_resource_type) =>
            /\ \A i \in Running : scanner_of[i] # NoScanner
            /\ \A i \in AsyncRunning : async_scanner_of[i] # NoScanner

C29_Step ==
    /\ OwnStateOnly(task_state, futures, scanner_of,
                    task_state', futures', scanner_of')
    /\ OwnStateOnly(async_task_state, async_futures, async_scanner_of,
                    async_task_state', async_futures', async_scanner_of')

\* C29: in both multi-region entry points every region scan constructs its
\* own scanner (and with it its own session and client): no scanner object
\* is used by two region scans, and no region scan changes the state of
\* another region scan.
C29_ScannerPerRegionScan == [] C29_State /\ [][C29_Step]_vars

\* One region listed twice: its two scans of the asynchronous call had a
\* scanner each, and its two scans of the thread-pool call are running at
\* the same time, each with a scanner of its own.
C29_Witness ==
    /\ Len(target_regions) >= 2
    /\ target_regions[1] = target_regions[2]
    /\ async_pc = "done"
    /\ async_scanner_of[1] # NoScanner
    /\ async_scanner_of[1] # async_scanner_of[2]
    /\ Len(task_state) >= 2
    /\ task_state[1] = "running" /\ task_state[2] = "running"
    /\ scanner_of[1] # scanner_of[2]

\* The operations are those of the input resources, in input order.
InInputOrder ==
    /\ Len(operations) = Len(resources)
    /\ \A k \in DOMAIN operations :
            /\ operations[k].resource_id = k
            /\ operations[k].resource_type = resources[k].resource_type
            /\ operations[k].original_tags = resources[k].tags

\* C30 (amended): in the BulkTaggingResult of a real run failed is the
\* number of failed operations, rolled_back the number of rolled-back ones,
\* total_operations the number of input resources, and the operations are
\* in input order; successful is the number of completed operations when
\* rollback did not fire and 0 when it fired, and the operations still
\* completed after a rollback are those whose re-application raised.
C30_CountersAgreeUnlessRollbackFired ==
    RealRunDone =>
        /\ result.failed = Cardinality(WithStatus(FAILED))
        /\ result.rolled_back = Cardinality(WithStatus(ROLLED_BACK))
        /\ result.successful =
                IF rollback_started THEN 0 ELSE Cardinality(WithStatus(COMPLETED))
        /\ rollback_started => Cardinality(WithStatus(COMPLETED)) = rollback_errors
        /\ result.total_operations = Len(resources)
        /\ InInputOrder

\* Three resources: one operation failed, one was rolled back, and the
\* re-application for the third raised, so that it is still completed.
C30_Witness ==
    /\ RealRunDone
    /\ rollback_started
    /\ result.failed = 1
    /\ result.rolled_back = 1
    /\ result.successful = 0
    /\ Cardinality(WithStatus(COMPLETED)) = 1
    /\ rollback_errors = 1

\* C30 (as stated): the counters of the BulkTaggingResult of a real run
\* agree with the statuses of its operations: failed is the number of
\* failed operations, rolled_back the number of rolled-back ones, successful
\* the number of completed ones, total_operations the number of input
\* resources, and the operations are in input order.
C30_CountersAgreeWithStatuses ==
    RealRunDone =>
        /\ result.failed = Cardinality(WithStatus(FAILED))
        /\ result.rolled_back = Cardinality(WithStatus(ROLLED_BACK))
        /\ result.successful = Cardinality(WithStatus(COMPLETED))
        /\ result.total_operations = Len(resources)
        /\ InInputOrder

\* The re-application of operation k's original tags raised during rollback.
RaisedInRollback(k) ==
    \E x \in DOMAIN apply_log :
        /\ apply_log[x].op = operations[k].resource_id
        /\ apply_log[x].phase = "rollback"
        /\ apply_log[x].outcome = "raise"

C31_State ==
    (pc \in {"build_result", "done"} /\ rollback_started) =>
        /\ \A x \in DOMAIN completed_ops :
                operations[completed_ops[x]].status =
                    IF RaisedInRollback(completed_ops[x]) THEN COMPLETED ELSE ROLLED_BACK
        /\ rolled_back =
                Cardinality({ x \in DOMAIN completed_ops :
                                ~RaisedInRollback(completed_ops[x]) })
        /\ pc = "done" => result.rolled_back = rolled_back

C31_Step ==
    rollback_errors' # rollback_errors =>
        /\ pc = "rollback" /\ pc' = "rollback"
        /\ operations' = operations
        /\ rolled_back' = rolled_back
        /\ completed_ops' = completed_ops
        /\ rb_index' = rb_index + 1

\* C31: when re-applying the original tags of a completed operation raises
\* during rollback, the rollback goes on with the next operation and the call
\* still returns its result: that operation keeps status completed and is not
\* counted in rolled_back, and every other operation that was completed when
\* rollback began is rolled back and counted.
C31_RollbackErrorIsolated == []C31_State /\ [][C31_Step]_vars

\* The first re-application of a rollback raised and a later operation was
\* rolled back all the same.
C31_Witness ==
    /\ RealRunDone
    /\ rollback_started
    /\ Len(completed_ops) >= 2
    /\ RaisedInRollback(completed_ops[1])
    /\ operations[completed_ops[1]].status = COMPLETED
    /\ operations[completed_ops[2]].status = ROLLED_BACK
    /\ result.rolled_back = 1

\* No task is started twice or forgotten: the tasks are those submitted, one
\* per position of the list, each queued, running or finished, and each
\* finished exactly once.
OneTaskPerPosition ==
    /\ Len(task_state) = submitted
    /\ submitted <= Len(target_regions)
    /\ \A x, y \in DOMAIN completion_order :
            completion_order[x] = completion_order[y] => x = y
    /\ Range(completion_order) = { i \in DOMAIN task_state : task_state[i] = "finished" }

C32_State ==
    /\ OneTaskPerPosition
    /\ Len(region_results) <= Len(target_regions)
    /\ \A k \in DOMAIN region_results :
            /\ region_results[k].region = target_regions[k]
            /\ region_results[k] = futures[k][1]
    /\ MultiRegionDone =>
            /\ Len(multi_region_result[1].region_results) = Len(target_regions)
            /\ multi_region_result[1].region_results = ResultsByPosition
            /\ multi_region_result[1].regions_scanned = target_regions
            /\ Range(completion_order) = DOMAIN target_regions

\* The region list does not change during the call; a task goes from queued
\* to running to finished and never back.
C32_Step ==
    /\ mr_pc # "idle" => target_regions' = target_regions
    /\ \A i \in DOMAIN task_state :
            /\ i \in DOMAIN task_state'
            /\ task_state[i] = "running" => task_state'[i] \in {"running", "finished"}
            /\ task_state[i] = "finished" => task_state'[i] = "finished"
            /\ futures[i] # None => futures'[i] = futures[i]

C33_AsyncBoundedWorkers == Cardinality(AsyncRunning) <= max_workers

\* The listed resources that are still at the provider when the scan
\* inspects them (the others were answered with a not-found error).
StillAtProvider == (DOMAIN item_faults) \ NotFoundItems

\* C34: a scan that returns never reports as untagged a resource that
\* carries a tag at the provider; a failed fetch of a resource's tags does
\* not put the resource into untagged_resources.
C34_TaggedNeverReportedUntagged ==
    ScanReturned =>
        \A x \in DOMAIN returned[1].untagged_resources :
            LET id == returned[1].untagged_resources[x].resource_id
            IN  id \in StillAtProvider => listing[id] = EmptyTags

\* At return no operation is in progress and, unless fail_fast is set, none
\* is pending.
C35_AtReturn ==
    pc = "done" =>
        /\ result # NoResult
        /\ WithStatus(IN_PROGRESS) = {}
        /\ ~fail_fast => WithStatus(PENDING) = {}
        /\ \A k \in DOMAIN operations :
                operations[k].status \in {PENDING, COMPLETED, FAILED, ROLLED_BACK}

OperationOf(entry) == operations[entry.op]

\* C36: for every resource kind, the identifier bulk_tag_resources passes to
\* the kind's apply_tags, which is the resource_id the kind's scan recorded,
\* is one that apply_tags accepts; a function recorded by LambdaScanner.scan
\* is tagged successfully when no remote call fails.
C36_RecordedIdAccepted ==
    \A x \in DOMAIN apply_log :
        /\ OperationOf(apply_log[x]).id_form \in
                AcceptedIdForms(OperationOf(apply_log[x]).resource_type)
        /\ \E o \in ApplyAttempt(OperationOf(apply_log[x]).resource_type,
                                  OperationOf(apply_log[x]).id_form,
                                  EmptyTags, apply_log[x].tags) :
                o.result = "True"

(***************************************************************************)
(* Properties of the ConversationManager                                   *)
(***************************************************************************)
\* seq is what is left of whole when some of its first elements are dropped.
IsSuffixOf(seq, whole) ==
    /\ Len(seq) <= Len(whole)
    /\ seq = SubSeq(whole, Len(whole) - Len(seq) + 1, Len(whole))

\* C37: after any sequence of add_turn calls the history holds at most
\* max_history turns, every system turn added is still in it, and the
\* non-system turns kept are the most recent ones, in their original order.
C37_SlidingWindow ==
    /\ Len(conv_turns) <= conv_max_history
    /\ SystemTurns(conv_turns) = SystemTurns(conv_added)
    /\ IsSuffixOf(OtherTurns(conv_turns), OtherTurns(conv_added))

(***************************************************************************)
(* Properties of the LLMBackendFactory and its backends                    *)
(***************************************************************************)
LLMCallDone == llm_pc = "done"

\* A backend had produced a response for the call's messages less than ttl
\* before the call looked into the cache.
ProducedWithinTtl ==
    /\ llm_produced_before # None
    /\ llm_checked_at - llm_produced_before[1] < llm_ttl

ReturnedFromCache ==
    /\ llm_result # None
    /\ llm_result[1].kind = "response"
    /\ llm_result[1].cached

\* C38: with caching enabled, once generate has returned a response a
\* backend produced for a message list, whether the primary or the fallback
\* produced it, an identical call made before the ttl has passed is answered
\* from the cache (cached = true) and invokes no backend; and no call is
\* answered with an entry older than the ttl.
C38_CachedWithinTtl ==
    LLMCallDone =>
        /\ (llm_enable_cache /\ ProducedWithinTtl) =>
                (ReturnedFromCache /\ llm_invocations = << >>)
        /\ ReturnedFromCache => (llm_hit_age # None /\ llm_hit_age[1] <= llm_ttl)

FallbackInvocations == SelectSeq(llm_invocations, LAMBDA v : v.backend = "fallback")

\* The primary backend's call of this generate call failed with error.
PrimaryFailedWith(errors) ==
    /\ Len(llm_invocations) >= 1
    /\ llm_invocations[1].backend = "primary"
    /\ llm_invocations[1].outcome \in errors

\* C39: generate calls the fallback backend at most once, only after the
\* primary failed with an LLMError that is neither a rate-limit nor an
\* authentication error, and only when use_fallback is true and a fallback
\* exists; a rate-limit or authentication failure of the primary is re-raised
\* without calling the fallback; when both fail the call raises an LLMError
\* that names both backends and both errors.
C39_FallbackOnlyAfterLLMError ==
    /\ Len(FallbackInvocations) <= 1
    /\ (llm_pc = "fallback" \/ FallbackInvocations # << >>) =>
            /\ PrimaryFailedWith({"LLMError", "ModelNotFoundError"})
            /\ llm_use_fallback
            /\ llm_fallback # None
    /\ (LLMCallDone /\ PrimaryFailedWith({"RateLimitError", "AuthenticationError"})) =>
            /\ Len(llm_invocations) = 1
            /\ llm_result[1].kind = "raise"
            /\ llm_result[1].error = llm_invocations[1].outcome
    /\ (LLMCallDone /\ Len(llm_invocations) = 2 /\ llm_invocations[2].outcome # "returned") =>
            /\ llm_result[1].kind = "raise"
            /\ llm_result[1].error = "LLMError"
            /\ llm_result[1].message =
                    << llm_primary, llm_fallback[1],
                       llm_invocations[1].outcome, llm_invocations[2].outcome >>

\* The primary failed with a generic error, the fallback was called once and
\* was rate limited: the call raised an LLMError naming both.
C39_Witness ==
    /\ LLMCallDone
    /\ Len(llm_invocations) = 2
    /\ llm_primary = "openai"
    /\ llm_fallback = Some("anthropic")
    /\ llm_invocations[1].outcome = "LLMError"
    /\ llm_invocations[2].backend = "fallback"
    /\ llm_invocations[2].outcome = "RateLimitError"
    /\ llm_result[1].error = "LLMError"

\* C40: a backend's generate retries on rate-limit errors: an attempt the
\* provider answered with a rate-limit error is followed by another attempt
\* of the same request, up to three attempts in all, and RateLimitError is
\* raised to the caller only after the third rate-limited attempt.
C40_RateLimitRetried ==
    \A x \in DOMAIN llm_invocations :
        LET answers == llm_invocations[x].answers
        IN  /\ \A k \in DOMAIN answers :
                    (answers[k] = "rate_limit" /\ k < LLM_MAX_ATTEMPTS) => Len(answers) > k
            /\ llm_invocations[x].outcome = "RateLimitError" =>
                    /\ Len(answers) = LLM_MAX_ATTEMPTS
                    /\ \A k \in DOMAIN answers : answers[k] = "rate_limit"

====
